---- MODULE Spec2Model ----
(***************************************************************************)
(* Dependency-usage analysis engine of depsweep (chiefmikey/stale-deps).   *)
(*                                                                         *)
(* Strings are modelled as sequences of tokens.  The tokens "@", "/", "__" *)
(* and "-" are the characters the code inspects (startsWith('@'),          *)
(* split('/'), replace('__', '/'), the class [/@-]); every other token is  *)
(* a word that the code only ever compares as a whole.                     *)
(***************************************************************************)
EXTENDS Integers, Sequences, FiniteSets, TLC

VARIABLES
    \* the project on disk and the command line
    declared,       \* sorted list of declared dependency names (main: dependencies)
    files,          \* the file corpus besides the manifest, a sequence of file records
    manifest,       \* the project manifest: [scripts, leaves]
    tsconfig,       \* parsed tsconfig.json, or NoTSConfig
    nodeModules,    \* installed-package tree: package name -> names its manifest requires
    peerDependencies, \* installed package -> names its manifest lists as peerDependencies
    manifestFaults, \* installed package -> what is wrong with its manifest, if anything
    options,        \* command-line options: [aggressive, safe, dryRun]
    \* a run of the DependencyInfo engine
    pc,             \* position of the run
    depIndex,       \* index in declared of the next dependency to treat
    depInfoCache,   \* module-level cache: cache key -> DependencyInfo
    infoOf,         \* DependencyInfo obtained in this run, per queried dependency
    computations,   \* cache key -> times its DependencyInfo was computed in this run
    inProgress,     \* dependencies whose DependencyInfo is being computed, in start order
    unused,         \* the unused set of the resolver
    passes,         \* whole closure passes made in this run
    run,            \* 1 for the first run of the process, 2 for the second
    prev,           \* outputs of the first run, kept for comparison
    \* main of the command-line program
    dependencyUsage,    \* dependency -> usageFiles
    unusedDependencies, \* the list main builds
    safeUnused,         \* unused dependencies held back as protected or safe
    lockFiles,          \* the lock files in the project directory
    answer,             \* what the user typed at the removal prompt
    executed,           \* the command arrays handed to execSync, in order
    \* calls of the exported functions
    evaluation,     \* <<dependency, file position>> -> what isDependencyUsedInFile did
    calls,          \* <<module, command>> -> what safeExecSync of that module did
    \* one processFilesInParallel call
    heapSizeLimit,  \* v8 heap_size_limit, in KiB
    usedHeapSize,   \* v8 used_heap_size, in KiB
    batchSize,      \* const BATCH_SIZE of the call measured last, 0 before any
    scanFiles,      \* per input file, what matching it yields
    index,          \* loop variable of the batch loop
    inFlight,       \* positions of the batch whose promise has not settled
    batchResults,   \* settled results of the current batch, by position
    results,        \* const results: string[]
    totalErrors,    \* let totalErrors
    progress,       \* the processed values passed to onProgress so far
    scanPc,         \* "loop", "await", "done" or "idle"
    scanRun,        \* 1 for the first scan of the list, 2 for the second
    prevScan        \* outputs of the first scan, kept for comparison

inputs == <<declared, files, manifest, tsconfig, nodeModules, peerDependencies,
            manifestFaults, options>>

engineVars == <<pc, depIndex, depInfoCache, infoOf, computations, inProgress,
                unused, passes, run, prev>>

removeVars == <<lockFiles, answer, executed, evaluation, calls>>

mainVars == <<dependencyUsage, unusedDependencies, safeUnused, removeVars>>

heapVars == <<usedHeapSize, batchSize>>

scanVars == <<heapSizeLimit, heapVars, scanFiles, index, inFlight, batchResults, results,
              totalErrors, progress, scanPc, scanRun, prevScan>>

vars == <<inputs, engineVars, mainVars, scanVars>>

-----------------------------------------------------------------------------
(* String primitives on token sequences *)

\* String.prototype.startsWith
StartsWith(s, p) == Len(p) <= Len(s) /\ SubSeq(s, 1, Len(p)) = p

\* String.prototype.endsWith
EndsWith(s, p) == Len(p) <= Len(s) /\ SubSeq(s, Len(s) - Len(p) + 1, Len(s)) = p

\* positions at which p occurs in s
Occurrences(s, p) ==
    {i \in 1..(Len(s) - Len(p) + 1) : SubSeq(s, i, i + Len(p) - 1) = p}

\* String.prototype.includes
Includes(s, p) == Occurrences(s, p) # {}

Min(S) == CHOOSE x \in S : \A y \in S : x <= y

\* Math.min and Math.max of two numbers
Min2(a, b) == IF a <= b THEN a ELSE b
Max2(a, b) == IF a >= b THEN a ELSE b

\* String.prototype.replace(p, r) with a string pattern: first occurrence only
ReplaceFirst(s, p, r) ==
    IF ~Includes(s, p) THEN s
    ELSE LET i == Min(Occurrences(s, p))
         IN  SubSeq(s, 1, i - 1) \o r \o SubSeq(s, i + Len(p), Len(s))

\* String.prototype.replaceAll(p, r) with a one-token pattern
RECURSIVE ReplaceAll(_, _, _)
ReplaceAll(s, p, r) ==
    IF s = <<>> THEN <<>>
    ELSE (IF <<Head(s)>> = p THEN r ELSE <<Head(s)>>) \o ReplaceAll(Tail(s), p, r)

\* s.replace(/^p/, '') : removes p only at the start
StripPrefix(s, p) == IF StartsWith(s, p) THEN SubSeq(s, Len(p) + 1, Len(s)) ELSE s

Undefined == <<"undefined">>

\* s.split('/')[1] : the second '/'-separated segment, undefined when there is none
SplitSlashSecond(s) ==
    IF ~Includes(s, <<"/">>) THEN Undefined
    ELSE LET i    == Min(Occurrences(s, <<"/">>))
             rest == SubSeq(s, i + 1, Len(s))
         IN  IF Includes(rest, <<"/">>)
             THEN SubSeq(rest, 1, Min(Occurrences(rest, <<"/">>)) - 1)
             ELSE rest

TYPES_PREFIX == <<"@", "types", "/">>

-----------------------------------------------------------------------------
(* helpers.ts: import-source comparison *)

StartsWithAt(s) == StartsWith(s, <<"@">>)

\* matchesDependency, disjunct by disjunct in evaluation order.  The fourth
\* disjunct calls .startsWith on sourceWithoutScope, which is undefined for a
\* source that starts with '@' and holds no '/': that call throws a TypeError.
MatchOutcome(importSource, dependency) ==
    LET depWithoutScope ==
            IF StartsWithAt(dependency) THEN SplitSlashSecond(dependency)
            ELSE dependency
        sourceWithoutScope ==
            IF StartsWithAt(importSource) THEN SplitSlashSecond(importSource)
            ELSE importSource
        unprefixed == StripPrefix(dependency, TYPES_PREFIX)
    IN  IF importSource = dependency THEN "match"
        ELSE IF StartsWith(importSource, dependency \o <<"/">>) THEN "match"
        ELSE IF sourceWithoutScope = depWithoutScope THEN "match"
        ELSE IF sourceWithoutScope = Undefined THEN "TypeError"
        ELSE IF StartsWith(sourceWithoutScope, depWithoutScope \o <<"/">>) THEN "match"
        ELSE IF /\ StartsWith(dependency, TYPES_PREFIX)
                /\ \/ importSource = unprefixed
                   \/ StartsWith(importSource, unprefixed \o <<"/">>)
             THEN "match"
        ELSE "nomatch"

matchesDependency(importSource, dependency) ==
    MatchOutcome(importSource, dependency) = "match"

\* The node kinds the traversal visits, as statement kinds of the file model:
\*   "import"       ImportDeclaration (import ... from, import type ... from)
\*   "require"      CallExpression whose callee is the identifier require
\*   "importType"   TSImportType (import('x').T in a type position)
\*   "importEquals" TSExternalModuleReference (import x = require('x'))
\*   "dynamic"      import('x') : a CallExpression whose callee is Import, which
\*                  no visitor case accepts
VisitedKinds == {"import", "require", "importType", "importEquals"}

\* The traversal over the statements from position i on: "used" at the first
\* match (importPath.stop()), "threw" when a comparison throws, "none" at the end.
RECURSIVE Traverse(_, _, _)
Traverse(stmts, i, dependency) ==
    IF i > Len(stmts) THEN "none"
    ELSE IF stmts[i].kind \notin VisitedKinds THEN Traverse(stmts, i + 1, dependency)
    ELSE LET o == MatchOutcome(stmts[i].src, dependency)
         IN  IF o = "match" THEN "used"
             ELSE IF o = "TypeError" THEN "threw"
             ELSE Traverse(stmts, i + 1, dependency)

\* dependency.replaceAll(/[/@-]/g, '[/@-]') inside the two regular expressions:
\* each of '/', '@', '-' of the name matches any of the three in the text.
ClassTokens == {"/", "@", "-"}

RegexNameMatches(text, dependency) ==
    /\ Len(text) = Len(dependency)
    /\ \A i \in 1..Len(text) :
          \/ text[i] = dependency[i]
          \/ text[i] \in ClassTokens /\ dependency[i] \in ClassTokens

\* dynamicImportRegex.test(content): import( 'NAME' ) with the quoted string
\* being the whole name (the closing quote follows the name directly)
DynamicImportRegexTest(file, dependency) ==
    \E i \in 1..Len(file.stmts) :
        /\ file.stmts[i].kind = "dynamic"
        /\ RegexNameMatches(file.stmts[i].src, dependency)

-----------------------------------------------------------------------------
(* helpers.ts: generated patterns and the deep scan of parsed content *)

\* [-./] between a name and a suffix
SuffixSeparators == {"-", ".", "/"}

\* 'suffix' patterns: every listed word, bare and with a trailing 's'
SuffixWords ==
    {"config", "rc", "settings", "configuration", "setup", "options",
     "plugin", "plugins", "extension", "extensions", "addon", "addons",
     "preset", "presets", "recommended", "standard", "defaults",
     "configs", "rcs", "settingss", "configurations", "setups", "optionss",
     "pluginss", "extensionss", "addonss", "presetss", "recommendeds",
     "standards", "defaultss"}

\* 'combined' patterns: name-part and part-name (the empty part is listed too)
CombinedParts == {"cli", "core", "utils", "tools", "helper", "helpers"}

\* the two 'regex' patterns, [/-] followed by one of these words
FrameworkWords == {"react", "vue", "svelte", "angular", "node"}
RoleWords ==
    {"loader", "parser", "transformer", "formatter", "linter", "compiler",
     "loaders", "parsers", "transformers", "formatters", "linters", "compilers"}

ScopePrefixes ==
    {<<"@">>, <<"@", "types", "/">>, <<"@", "storybook", "/">>,
     <<"@", "testing", "-", "library", "/">>}

\* generatePatternMatcher(dependency).some(p => p.test(value)), for names
\* without regular-expression metacharacters
PatternMatches(value, dependency) ==
    LET n    == Len(dependency)
        tail == IF StartsWith(value, dependency)
                THEN SubSeq(value, n + 1, Len(value)) ELSE <<"">>
        head == IF EndsWith(value, dependency)
                THEN SubSeq(value, 1, Len(value) - n) ELSE <<"">>
    IN  \/ value = dependency
        \/ \E pre \in ScopePrefixes :
              /\ StartsWith(value, pre \o dependency)
              /\ LET rest == SubSeq(value, Len(pre) + n + 1, Len(value))
                 IN  rest = <<>> \/ rest[1] = "/"
        \/ /\ Len(tail) = 2
           /\ tail[1] \in SuffixSeparators
           /\ tail[2] \in SuffixWords \cup CombinedParts
        \/ Len(tail) = 1 /\ tail[1] \in SuffixSeparators
        \/ /\ Len(head) = 2
           /\ head[2] \in SuffixSeparators
           /\ head[1] \in CombinedParts
        \/ Len(head) = 1 /\ head[1] \in SuffixSeparators
        \/ /\ Len(tail) = 2
           /\ tail[1] \in {"/", "-"}
           /\ tail[2] \in FrameworkWords \cup RoleWords

\* scanForDependency over a parsed structure, given by its string leaves
scanForDependency(leaves, dependency) ==
    \E value \in leaves : PatternMatches(value, dependency)

-----------------------------------------------------------------------------
(* A file of the corpus:                                                   *)
(*   dir      directory segments below the project root                    *)
(*   base     basename, a token sequence such as <<"a", ".", "ts">>        *)
(*   binary   isBinaryFileSync(filePath)                                    *)
(*   stmts    import-like statements in traversal order, [kind, src]       *)
(*   mentions other chunks of the raw text                                 *)
(*   json     TRUE when the content is valid JSON, with string leaves      *)
(*   leaves   the string leaves of the parsed JSON                         *)
(* The corpus holds no YAML file.                                          *)

PACKAGE_JSON == <<"package", ".", "json">>

Path(file) == [dir |-> file.dir, base |-> file.base]

\* path.extname(filePath)
Extname(file) ==
    IF Len(file.base) >= 3 /\ file.base[Len(file.base) - 1] = "."
    THEN file.base[Len(file.base)] ELSE ""

\* file.endsWith('.ts') || file.endsWith('.tsx')
IsTSFile(file) == EndsWith(file.base, <<".", "ts">>) \/ EndsWith(file.base, <<".", "tsx">>)

hasTSFiles(sourceFiles) == \E i \in 1..Len(sourceFiles) : IsTSFile(sourceFiles[i])

\* isConfigFile: 'config' in the name, a leading dot, the manifest, or
\* CONFIG_REGEX /\.(config|rc)(\.|\b)/
isConfigFile(file) ==
    \/ \E i \in 1..Len(file.base) : file.base[i] \in {"config", "tsconfig"}
    \/ file.base[1] = "."
    \/ file.base = PACKAGE_JSON
    \/ \E i \in 1..(Len(file.base) - 1) :
          file.base[i] = "." /\ file.base[i + 1] \in {"config", "rc"}

\* every chunk of raw text of a file: the quoted sources and the other chunks
TextChunks(file) == file.mentions \cup {file.stmts[i].src : i \in 1..Len(file.stmts)}

\* parseConfigFile: parsed JSON for .json, raw text for .js/.cjs/.mjs, and
\* for any other extension JSON when it parses, else raw text
parseConfigFile(file) ==
    LET parsed == [raw |-> FALSE, leaves |-> file.leaves, chunks |-> {}]
        text   == [raw |-> TRUE, leaves |-> {}, chunks |-> TextChunks(file)]
    IN  IF Extname(file) \in {"js", "cjs", "mjs"} THEN text
        ELSE IF file.json THEN parsed
        ELSE text

-----------------------------------------------------------------------------
(* constants.ts RAW_CONTENT_PATTERNS and the textual fallback *)

\* each glob 'prefix*' is given by its literal prefix
RAW_CONTENT_PATTERNS ==
    { [base |-> <<"webpack">>,
       patterns |-> {<<"webpack", ".">>, <<"webpack", "-">>}],
      [base |-> <<"babel">>,
       patterns |-> {<<"babel", ".">>, <<"@", "babel", "/">>}],
      [base |-> <<"eslint">>,
       patterns |-> {<<"eslint", ".">>, <<"@", "eslint", "/">>}],
      [base |-> <<"jest">>,
       patterns |-> {<<"jest", ".">>, <<"@", "jest", "/">>}],
      [base |-> <<"typescript">>,
       patterns |-> {<<"ts", "-">>, <<"@", "typescript", "-">>}],
      [base |-> <<"bundler">>,
       patterns |-> {<<"rollup", ".">>, <<"rollup", "-">>, <<"esbuild", ".">>,
                     <<"@", "esbuild", "/">>, <<"vite", ".">>, <<"@", "vitejs", "/">>}] }

\* micromatch.isMatch(name, 'prefix*'): the star spans no '/'
GlobMatches(name, prefix) ==
    /\ StartsWith(name, prefix)
    /\ Len(name) > Len(prefix)
    /\ \A i \in (Len(prefix) + 1)..Len(name) : name[i] # "/"

IsWordTok(t) == t \notin {"-", "/", "@", ".", " "}

\* \b between positions i and i+1 of a chunk (0 and Len are the chunk's edges)
BoundaryAfter(chunk, i) ==
    LET left  == IF i = 0 THEN FALSE ELSE IsWordTok(chunk[i])
        right == IF i = Len(chunk) THEN FALSE ELSE IsWordTok(chunk[i + 1])
    IN  left # right

\* new RegExp(`\\b${name with [/@-] classes}\\b`, 'i').test(content)
WholeWordTest(file, dependency) ==
    \E chunk \in TextChunks(file) :
        \E i \in 1..(Len(chunk) - Len(dependency) + 1) :
            /\ RegexNameMatches(SubSeq(chunk, i, i + Len(dependency) - 1), dependency)
            /\ BoundaryAfter(chunk, i - 1)
            /\ BoundaryAfter(chunk, i + Len(dependency) - 1)

PatternFamilyFallback(file, dependency) ==
    \E family \in RAW_CONTENT_PATTERNS :
        /\ StartsWith(dependency, family.base)
        /\ \E prefix \in family.patterns : GlobMatches(dependency, prefix)
        /\ WholeWordTest(file, dependency)

-----------------------------------------------------------------------------
(* utils.ts getPackageContext *)

RootKey(base) == [dir |-> <<>>, base |-> base]

\* a script command line is a sequence of words; as one string the words are
\* joined by spaces
RECURSIVE JoinSpace(_)
JoinSpace(cmd) ==
    IF cmd = <<>> THEN <<>>
    ELSE IF Len(cmd) = 1 THEN cmd[1]
    ELSE cmd[1] \o <<" ">> \o JoinSpace(Tail(cmd))

\* the string leaves of the parsed manifest: the script command lines and the
\* other string values (version ranges match no pattern and are left out)
ManifestLeaves(man) == {JoinSpace(cmd) : cmd \in man.scripts} \cup man.leaves

\* the manifest as a file of the corpus: its raw text also holds the declared
\* names (the keys of the dependency sections); as JavaScript it does not parse
ManifestFile(man, dependencies) ==
    [dir |-> <<>>, base |-> PACKAGE_JSON, binary |-> FALSE, readable |-> TRUE,
     parses |-> FALSE, stmts |-> <<>>,
     mentions |-> ManifestLeaves(man)
                  \cup {dependencies[i] : i \in 1..Len(dependencies)},
     json |-> TRUE, leaves |-> ManifestLeaves(man)]

\* configs: 'package.json' plus one entry per readable configuration file,
\* keyed by its path relative to the project directory; dependencyGraph: an
\* empty set for every declared dependency
getPackageContext(man, dependencies, allFiles) ==
    LET configFiles == {i \in 1..Len(allFiles) :
                           isConfigFile(allFiles[i]) /\ allFiles[i].readable}
        keys == {Path(allFiles[i]) : i \in configFiles} \cup {RootKey(PACKAGE_JSON)}
    IN  [scripts |-> man.scripts,
         configs |-> [k \in keys |->
                        IF \E i \in configFiles : Path(allFiles[i]) = k
                        THEN parseConfigFile(
                                 allFiles[CHOOSE i \in configFiles : Path(allFiles[i]) = k])
                        ELSE [raw |-> FALSE, leaves |-> ManifestLeaves(man), chunks |-> {}]],
         dependencyGraph |->
             [d \in {dependencies[i] : i \in 1..Len(dependencies)} |-> {}]]

-----------------------------------------------------------------------------
(* helpers.ts isDependencyUsedInFile *)

\* signal 1: a file named package.json, scanned through the root manifest entry
ManifestSignal(dependency, file, context) ==
    /\ file.base = PACKAGE_JSON
    /\ RootKey(PACKAGE_JSON) \in DOMAIN context.configs
    /\ scanForDependency(context.configs[RootKey(PACKAGE_JSON)].leaves, dependency)

\* signal 2: configKey = path.relative(path.dirname(filePath), filePath), which
\* is the file's basename
ConfigSignal(dependency, file, context) ==
    LET configKey == RootKey(file.base)
    IN  /\ configKey \in DOMAIN context.configs
        /\ LET config == context.configs[configKey]
           IN  IF config.raw
               THEN \E chunk \in config.chunks : Includes(chunk, dependency)
               ELSE scanForDependency(config.leaves, dependency)

\* signal 3: script.split(' ').includes(dependency)
ScriptSignal(dependency, context) ==
    \E cmd \in context.scripts : \E i \in 1..Len(cmd) : cmd[i] = dependency

isDependencyUsedInFile(dependency, file, context) ==
    IF ManifestSignal(dependency, file, context) THEN TRUE
    ELSE IF ConfigSignal(dependency, file, context) THEN TRUE
    ELSE IF ScriptSignal(dependency, context) THEN TRUE
    ELSE IF file.binary THEN FALSE
    ELSE IF ~file.readable THEN FALSE
    ELSE IF DynamicImportRegexTest(file, dependency) THEN TRUE
    ELSE IF file.parses /\ Traverse(file.stmts, 1, dependency) = "used" THEN TRUE
    ELSE PatternFamilyFallback(file, dependency)

\* the steps of isDependencyUsedInFile with the binary test first
SignalOrderBinaryFirst ==
    <<"binary", "manifest", "config", "script", "dynamic", "ast", "fallback">>

\* the steps of isDependencyUsedInFile in the order of its statements
SignalOrder ==
    <<"manifest", "config", "script", "binary", "dynamic", "ast", "fallback">>

\* whether a step ends the call: a positive signal returns true; the binary
\* step returns false for a binary file and throws into the outer catch for
\* a file that cannot be opened
StepReturns(step, dependency, file, context) ==
    CASE step = "manifest" -> ManifestSignal(dependency, file, context)
      [] step = "config"   -> ConfigSignal(dependency, file, context)
      [] step = "script"   -> ScriptSignal(dependency, context)
      [] step = "binary"   -> file.binary \/ ~file.readable
      [] step = "dynamic"  -> DynamicImportRegexTest(file, dependency)
      [] step = "ast"      -> file.parses /\ Traverse(file.stmts, 1, dependency) = "used"
      [] step = "fallback" -> PatternFamilyFallback(file, dependency)

\* one call of isDependencyUsedInFile: the steps it takes, its answer and the
\* key of context.configs it looks up
EvaluationOf(dependency, file, context) ==
    LET order   == SignalOrder
        ending  == {k \in 1..Len(order) : StepReturns(order[k], dependency, file, context)}
        last    == IF ending = {} THEN Len(order)
                   ELSE CHOOSE k \in ending : \A j \in ending : k <= j
    IN  [steps     |-> SubSeq(order, 1, last),
         answer    |-> ending # {} /\ order[last] # "binary",
         configKey |-> RootKey(file.base)]

-----------------------------------------------------------------------------
(* utils.ts getDependencyInfo *)

\* normalizeTypesPackage: '@types/' removed, then a__b -> @a/b, a/b -> @a/b
normalizeTypesPackage(typesPackage) ==
    LET basePackage == ReplaceFirst(typesPackage, TYPES_PREFIX, <<>>)
    IN  IF Includes(basePackage, <<"__">>)
        THEN <<"@">> \o ReplaceFirst(basePackage, <<"__">>, <<"/">>)
        ELSE IF Includes(basePackage, <<"/">>) THEN <<"@">> \o basePackage
        ELSE basePackage

TYPESCRIPT == <<"typescript">>
NODE == <<"node">>
\* getTSConfig: null when tsconfig.json cannot be read or parsed
NoTSConfig == [present |-> FALSE, types |-> {}, typeRoots |-> {}]

\* findTopLevelDependents with every requiring package added to the result,
\* top-level or not
RECURSIVE findTopLevelDependentsAll(_, _, _, _)
findTopLevelDependentsAll(dep, active, dependencyGraph, topLevelDependencies) ==
    LET requiring == {package \in DOMAIN dependencyGraph : dep \in dependencyGraph[package]}
        parents   == requiring \ topLevelDependencies
        sub       == [package \in parents |->
                        IF package \in active
                        THEN [overflow |-> TRUE, dependents |-> {}]
                        ELSE findTopLevelDependentsAll(package, active \cup {package},
                                                       dependencyGraph, topLevelDependencies)]
    IN  IF \E package \in parents : sub[package].overflow
        THEN [overflow |-> TRUE, dependents |-> {}]
        ELSE [overflow |-> FALSE,
              dependents |-> requiring \cup UNION {sub[package].dependents : package \in parents}]

\* findTopLevelDependents(dep).  active holds the arguments of the calls on
\* the stack, dep included.  The function keeps no visited set, so a call
\* whose argument is already active repeats without end and the stack
\* overflows: the outcome is then a RangeError (overflow) instead of a set.
RECURSIVE findTopLevelDependents(_, _, _, _)
findTopLevelDependents(dep, active, dependencyGraph, topLevelDependencies) ==
    LET requiring == {package \in DOMAIN dependencyGraph : dep \in dependencyGraph[package]}
        direct    == requiring \cap topLevelDependencies
        parents   == requiring \ topLevelDependencies
        sub       == [package \in parents |->
                        IF package \in active
                        THEN [overflow |-> TRUE, dependents |-> {}]
                        ELSE findTopLevelDependents(package, active \cup {package},
                                                    dependencyGraph, topLevelDependencies)]
    IN  IF \E package \in parents : sub[package].overflow
        THEN [overflow |-> TRUE, dependents |-> {}]
        ELSE [overflow |-> FALSE,
              dependents |-> direct \cup UNION {sub[package].dependents : package \in parents}]

\* the paths of the files at the positions in keep, in corpus order
RECURSIVE SelectFiles(_, _, _)
SelectFiles(sourceFiles, i, keep) ==
    IF i > Len(sourceFiles) THEN <<>>
    ELSE (IF i \in keep THEN <<Path(sourceFiles[i])>> ELSE <<>>)
         \o SelectFiles(sourceFiles, i + 1, keep)

\* the file loop putting each used file in front of the list (unshift)
RECURSIVE UsedInFilesUnshift(_, _, _)
UsedInFilesUnshift(sourceFiles, keep, n) ==
    IF n = 0 THEN <<>>
    ELSE (IF n \in keep THEN <<Path(sourceFiles[n])>> ELSE <<>>)
         \o UsedInFilesUnshift(sourceFiles, keep, n - 1)

\* info.usedInFiles after the first n iterations of the file loop, keep being
\* the positions at which the loop's test holds: info.usedInFiles.push(file)
UsedInFilesAfter(sourceFiles, keep, n) ==
    SelectFiles(SubSeq(sourceFiles, 1, n), 1, keep)

\* the positions at which the test of the '@types/' file loop holds
TypesUsedPositions(dependency, context, sourceFiles) ==
    {i \in 1..Len(sourceFiles) :
        /\ IsTSFile(sourceFiles[i])
        /\ \/ isDependencyUsedInFile(dependency, sourceFiles[i], context)
           \/ isDependencyUsedInFile(normalizeTypesPackage(dependency),
                                     sourceFiles[i], context)}

\* the positions at which the test of the general file loop holds
PackageUsedPositions(dependency, context, sourceFiles) ==
    {i \in 1..Len(sourceFiles) :
        isDependencyUsedInFile(dependency, sourceFiles[i], context)}

\* the branch for '@types/' packages (it returns without writing the cache)
TypesDependencyInfo(dependency, context, sourceFiles, topLevelDependencies, tsConfig) ==
    LET basePackage == normalizeTypesPackage(dependency)
        keep == TypesUsedPositions(dependency, context, sourceFiles)
    IN  IF basePackage = NODE /\ hasTSFiles(sourceFiles)
        THEN [usedInFiles |-> <<>>, requiredByPackages |-> {TYPESCRIPT},
              hasSubDependencyUsage |-> FALSE]
        ELSE [usedInFiles |-> UsedInFilesAfter(sourceFiles, keep, Len(sourceFiles)),
              requiredByPackages |->
                  (IF basePackage \in topLevelDependencies THEN {basePackage} ELSE {})
                  \cup (IF /\ tsConfig.present
                           /\ hasTSFiles(sourceFiles)
                           /\ \/ basePackage \in tsConfig.types
                              \/ \E root \in tsConfig.typeRoots : Includes(root, basePackage)
                        THEN {TYPESCRIPT} ELSE {}),
              hasSubDependencyUsage |-> FALSE]

\* packageJsonResults without the null entries: one entry per installed
\* package whose manifest is read and parsed by JSON.parse.  A manifest that
\* cannot be read or is not JSON yields null and is left out ("unreadable");
\* a manifest whose JSON text is the literal null is parsed, so its entry
\* stays, with data null ("null").
packageJsonResults(tree, faults) ==
    [package \in {q \in DOMAIN tree : q \notin DOMAIN faults \/ faults[q] = "null"} |->
        [isNull |-> package \in DOMAIN faults,
         requires |-> IF package \in DOMAIN faults THEN {} ELSE tree[package]]]

\* the first pass over packageJsonResults: data.dependencies on a null data
\* throws a TypeError, which the enclosing try catches
FirstPassThrows(installed) == \E package \in DOMAIN installed : installed[package].isNull

\* the packages the first pass can reach dependencyGraph.set for
GraphEntries(installed) == {package \in DOMAIN installed : ~installed[package].isNull}

\* dependencyGraph.set(pkg, new Set(Object.keys(allDeps)))
DependencyGraphOf(installed) ==
    [package \in DOMAIN installed |-> installed[package].requires]

\* the branch for every other package: direct usage, then the installed tree.
\* An exception of the first pass or a RangeError of the search is caught by
\* the enclosing try, which leaves
\* requiredByPackages as the empty set it was created with.
PackageDependencyInfo(dependency, context, sourceFiles, topLevelDependencies, installed) ==
    LET subdeps == IF dependency \in DOMAIN context.dependencyGraph
                   THEN context.dependencyGraph[dependency] ELSE {}
        keep == PackageUsedPositions(dependency, context, sourceFiles)
        found == findTopLevelDependents(dependency, {dependency},
                                        DependencyGraphOf(installed),
                                        topLevelDependencies)
    IN  [usedInFiles |-> UsedInFilesAfter(sourceFiles, keep, Len(sourceFiles)),
         requiredByPackages |->
             IF FirstPassThrows(installed) THEN {}
             ELSE IF found.overflow THEN {} ELSE found.dependents,
         hasSubDependencyUsage |->
             \E subdep \in subdeps : \E i \in 1..Len(sourceFiles) :
                 isDependencyUsedInFile(subdep, sourceFiles[i], context)]

ProjectRoot == "/project"

\* const cacheKey = `${context.projectRoot}:${dependency}`
CacheKey(dependency) == <<ProjectRoot, dependency>>

\* getDependencyInfo writing the cache entry before the installed tree is read
getDependencyInfoStaleCache(dependency, context, sourceFiles, topLevelDependencies, tsConfig, installed, cache) ==
    IF CacheKey(dependency) \in DOMAIN cache
    THEN [info |-> cache[CacheKey(dependency)], cache |-> cache, computed |-> FALSE]
    ELSE IF StartsWith(dependency, TYPES_PREFIX)
    THEN [info |-> TypesDependencyInfo(dependency, context, sourceFiles,
                                       topLevelDependencies, tsConfig),
          cache |-> cache, computed |-> TRUE]
    ELSE LET info == PackageDependencyInfo(dependency, context, sourceFiles,
                                           topLevelDependencies, installed)
         IN  [info |-> info,
              cache |-> [k \in DOMAIN cache \cup {CacheKey(dependency)} |->
                            IF k = CacheKey(dependency)
                            THEN [info EXCEPT !.requiredByPackages = {}]
                            ELSE cache[k]],
              computed |-> TRUE]

\* getDependencyInfo: the cached object on a hit; else the computed record,
\* written to the cache by the branch that reaches depInfoCache.set
getDependencyInfo(dependency, context, sourceFiles, topLevelDependencies, tsConfig, installed, cache) ==
    IF CacheKey(dependency) \in DOMAIN cache
    THEN [info |-> cache[CacheKey(dependency)], cache |-> cache, computed |-> FALSE]
    ELSE IF StartsWith(dependency, TYPES_PREFIX)
    THEN [info |-> TypesDependencyInfo(dependency, context, sourceFiles,
                                       topLevelDependencies, tsConfig),
          cache |-> cache, computed |-> TRUE]
    ELSE LET info == PackageDependencyInfo(dependency, context, sourceFiles,
                                           topLevelDependencies, installed)
         IN  [info |-> info,
              cache |-> [k \in DOMAIN cache \cup {CacheKey(dependency)} |->
                            IF k = CacheKey(dependency) THEN info ELSE cache[k]],
              computed |-> TRUE]

-----------------------------------------------------------------------------
(* Unused-Set Resolver (spec 4.6) *)

SeqToSet(seq) == {seq[i] : i \in 1..Len(seq)}

\* Initial unused set: no direct usage and no requirer
InitialUnusedSet(dependencies, info) ==
    {d \in SeqToSet(dependencies) :
        info[d].usedInFiles = <<>> /\ info[d].requiredByPackages = {}}

\* the closure condition for one dependency against the current unused set
Promotable(d, info, unusedSet) ==
    /\ d \notin unusedSet
    /\ info[d].usedInFiles = <<>>
    /\ info[d].requiredByPackages \subseteq unusedSet

\* one whole pass over the dependencies in list order, from position i on;
\* a dependency promoted earlier in the pass counts for the later ones
RECURSIVE ClosurePassFrom(_, _, _, _)
ClosurePassFrom(dependencies, i, info, unusedSet) ==
    IF i > Len(dependencies) THEN unusedSet
    ELSE ClosurePassFrom(dependencies, i + 1, info,
             IF Promotable(dependencies[i], info, unusedSet)
             THEN unusedSet \cup {dependencies[i]} ELSE unusedSet)

\* a pass that keeps only what it promoted
ClosurePassPromotedOnly(dependencies, info, unusedSet) ==
    ClosurePassFrom(dependencies, 1, info, unusedSet) \ unusedSet

ClosurePassResult(dependencies, info, unusedSet) ==
    ClosurePassFrom(dependencies, 1, info, unusedSet)

\* PassAdded answering no: the loop ends after its first pass
PassAddedNever(before, after) == FALSE

\* PassAdded answering "the unused set is not empty"
PassAddedAny(before, after) == after # {}

\* "Repeat until an iteration adds nothing"
PassAdded(before, after) == after # before

-----------------------------------------------------------------------------
(* index.ts: what main calls besides the matcher *)

\* processFilesInParallel as main sees it: the files the matcher accepts, in
\* input order (the batch loop itself is the scan machine below)
processFilesInParallel(sourceFiles, dependency, context) ==
    SelectFiles(sourceFiles, 1,
        {i \in 1..Len(sourceFiles) :
            isDependencyUsedInFile(dependency, sourceFiles[i], context)})

\* isTypePackageUsed; peers stands for the manifests that
\* require.resolve(`${package_}/package.json`) finds
isTypePackageUsed(dependency, installedPackages, unusedDeps, context, sourceFiles, peers) ==
    LET correspondingPackage ==
            ReplaceAll(StripPrefix(dependency, TYPES_PREFIX), <<"__">>, <<"/">>)
        normalizedPackage ==
            IF Includes(correspondingPackage, <<"/">>)
            THEN <<"@">> \o correspondingPackage ELSE correspondingPackage
        supported == \E i \in 1..Len(installedPackages) :
                         installedPackages[i] = normalizedPackage
    IN  IF ~StartsWith(dependency, TYPES_PREFIX) THEN [isUsed |-> FALSE]
        ELSE IF /\ supported
                /\ \E i \in 1..Len(sourceFiles) :
                      isDependencyUsedInFile(normalizedPackage, sourceFiles[i], context)
        THEN [isUsed |-> TRUE]
        ELSE [isUsed |->
                 \E i \in 1..Len(installedPackages) :
                     /\ installedPackages[i] \in DOMAIN peers
                     /\ dependency \in peers[installedPackages[i]]]

PROTECTED_PACKAGES ==
    {TYPESCRIPT, <<"@", "types", "/", "node">>, <<"tslib">>, <<"prettier">>, <<"eslint">>}

\* the characters of a word token (the option values of the model are made of
\* "lodash" and of one-character tokens)
LettersOf(token) ==
    IF token = "lodash" THEN {"l", "o", "d", "a", "s", "h"} ELSE {token}

\* [...string]: the spread of a string yields its characters
Spread(string) ==
    {<<c>> : c \in UNION {LettersOf(string[i]) : i \in 1..Len(string)}}

\* options.safe || [] inside a spread or a Set constructor; commander hands
\* the value of '--safe <deps>' over as one string
SafeEntries(opts) == IF opts.safe = Undefined THEN {} ELSE Spread(opts.safe)

\* safeSet of main
SafeSet(opts) ==
    IF opts.aggressive THEN SafeEntries(opts)
    ELSE PROTECTED_PACKAGES \cup SafeEntries(opts)

\* array.filter(keep) for a list of names and a set of kept names
RECURSIVE FilterNames(_, _)
FilterNames(list, keep) ==
    IF list = <<>> THEN <<>>
    ELSE (IF Head(list) \in keep THEN <<Head(list)>> ELSE <<>>)
         \o FilterNames(Tail(list), keep)

-----------------------------------------------------------------------------
(* index.ts main: the removal prompt and the uninstall command *)

YARN_LOCK == "yarn.lock"
PNPM_LOCK == "pnpm-lock.yaml"

NPM == <<"npm">>
YARN == <<"yarn">>
PNPM == <<"pnpm">>

\* detectPackageManager: yarn.lock first, then pnpm-lock.yaml, else npm
detectPackageManager(locks) ==
    IF YARN_LOCK \in locks THEN YARN
    ELSE IF PNPM_LOCK \in locks THEN PNPM
    ELSE NPM

\* the tokens that stand for characters outside [\w./@-]
OtherChars == {" ", "$", ";"}

\* FILE_PATTERNS.PACKAGE_NAME_REGEX /^[\w./@-]+$/
isValidPackageName(name) ==
    /\ name # <<>>
    /\ \A i \in 1..Len(name) : name[i] \notin OtherChars

\* string.split(' '): the pieces between the space tokens, empty ones kept
RECURSIVE SplitFrom(_, _, _)
SplitFrom(string, i, piece) ==
    IF i > Len(string) THEN <<piece>>
    ELSE IF string[i] = " " THEN <<piece>> \o SplitFrom(string, i + 1, <<>>)
    ELSE SplitFrom(string, i + 1, Append(piece, string[i]))

SplitSpace(string) == SplitFrom(string, 1, <<>>)

\* the switch on packageManager: the command line as one string
UninstallCommand(packageManager, names) ==
    IF packageManager = NPM THEN <<"npm", " ", "uninstall", " ">> \o JoinSpace(names)
    ELSE IF packageManager = YARN THEN <<"yarn", " ", "remove", " ">> \o JoinSpace(names)
    ELSE IF packageManager = PNPM THEN <<"pnpm", " ", "remove", " ">> \o JoinSpace(names)
    ELSE <<>>

VALID_PACKAGE_MANAGERS == {NPM, YARN, PNPM}

\* safeExecSync of index.ts up to its execSync call: TRUE when it throws
\* before executing anything
safeExecSyncThrows(command) ==
    IF command = <<>> THEN TRUE
    ELSE IF command[1] \notin VALID_PACKAGE_MANAGERS THEN TRUE
    ELSE \E i \in 2..Len(command) : command[i] = <<>>

\* the property names `in` finds on the PACKAGE_MANAGERS object: its own
\* keys and those of Object.prototype (two of them)
PACKAGE_MANAGER_KEYS ==
    {<<"NPM">>, <<"YARN">>, <<"PNPM">>, <<"constructor">>, <<"toString">>}

\* safeExecSync of helpers.ts up to its execSync call: the package manager
\* is tested with `packageManager in PACKAGE_MANAGERS`
safeExecSyncHelpersThrows(command) ==
    IF command = <<>> THEN TRUE
    ELSE IF command[1] \notin PACKAGE_MANAGER_KEYS THEN TRUE
    ELSE \E i \in 2..Len(command) : command[i] = <<>>

\* where main goes after its report, with every dependency it lists
ReportTargetAlwaysPrompts(unusedList, opts) ==
    IF unusedList = <<>> THEN "ended" ELSE "prompt"

\* where main goes after its report: it returns when nothing is offered for
\* removal and when options.dryRun is set, else it prompts
ReportTarget(unusedList, opts) ==
    IF unusedList = <<>> THEN "ended"
    ELSE IF opts.dryRun THEN "ended"
    ELSE "prompt"

\* answer.toLowerCase()
ToLowerCase(text) == IF text = "Y" THEN "y" ELSE text

-----------------------------------------------------------------------------
(* utils.ts processFilesInParallel: batch size, results of a batch, progress *)

MinBatch == 10
MaxBatch == 100
\* 1024 * 1024 * 50 bytes, in KiB; floor(bytes / (1024 * 1024 * 50)) equals
\* floor(floor(bytes / 1024) / 51200)
KiBPerBatch == 51200

\* getMemoryUsage of helpers.ts: used_heap_size and heap_size_limit
getMemoryUsage(heapLimit, heapUsed) == [used |-> heapUsed, total |-> heapLimit]

BATCH_SIZE(maxMemory) ==
    Min2(MaxBatch, Max2(MinBatch, maxMemory \div KiBPerBatch))

\* processFile resolving to the file whatever the matcher answered
processFileAlwaysListed(file, outcome) ==
    [status |-> "fulfilled",
     value |-> [result |-> <<file>>, hasError |-> outcome = "error"]]

\* what processFile resolves to for a file whose matching yields outcome
processFile(file, outcome) ==
    [status |-> "fulfilled",
     value |-> [result |-> IF outcome = "used" THEN <<file>> ELSE <<>>,
                hasError |-> outcome = "error"]]

\* processResults giving up at the first failed file of the batch
RECURSIVE processResultsStopAtError(_, _, _)
processResultsStopAtError(settled, from, to) ==
    IF from > to THEN [validResults |-> <<>>, errors |-> 0]
    ELSE LET result == settled[from]
             rest == processResultsStopAtError(settled, from + 1, to)
         IN  IF result.status # "fulfilled" THEN rest
             ELSE IF result.value.hasError
             THEN [validResults |-> <<>>, errors |-> 1]
             ELSE [rest EXCEPT !.validResults = result.value.result \o rest.validResults]

\* processResults over the settled results of positions from..to, in order
RECURSIVE processResultsFrom(_, _, _)
processResultsFrom(settled, from, to) ==
    IF from > to THEN [validResults |-> <<>>, errors |-> 0]
    ELSE LET result == settled[from]
             rest == processResultsFrom(settled, from + 1, to)
         IN  IF result.status # "fulfilled" THEN rest
             ELSE IF result.value.hasError
             THEN [rest EXCEPT !.errors = rest.errors + 1]
             ELSE [rest EXCEPT !.validResults = result.value.result \o rest.validResults]

\* processed reporting the start of the batch
ProcessedAtBatchStart(start, batchLength, total) == start

\* const processed = Math.min(index + batch.length, files.length)
Processed(start, batchLength, total) == Min2(start + batchLength, total)

-----------------------------------------------------------------------------
(* The inputs of a run *)

MaxFiles == 1       \* files of the corpus besides the manifest
MaxEdges == 3       \* requires-edges of the installed tree
MaxDeps == 3        \* declared dependencies
MaxScanFiles == 12  \* files handed to one processFilesInParallel call
MaxComputations == 2 \* computations of one DependencyInfo followed in a run
MaxHeapSteps == 12  \* heap limits between the ones of HeapLimits, in steps of 50 MB
MaxCalls == 1       \* safeExecSync calls followed in one behaviour

EmptyMap == [k \in {} |-> {}]

\* package names
ALPHA == <<"alpha">>
BETA == <<"beta">>
GAMMA == <<"gamma">>
MID == <<"mid">>
LODASH == <<"lodash">>
SCOPED == <<"@", "s", "/", "p">>
TYPES_LODASH == <<"@", "types", "/", "lodash">>
TYPES_NODE == <<"@", "types", "/", "node">>
TYPES_SCOPED == <<"@", "types", "/", "s", "__", "p">>

\* the elements of seq at the positions in keep, in order
RECURSIVE Pick(_, _, _)
Pick(seq, i, keep) ==
    IF i > Len(seq) THEN <<>>
    ELSE (IF i \in keep THEN <<seq[i]>> ELSE <<>>) \o Pick(seq, i + 1, keep)

SubSequences(seq, max) ==
    {Pick(seq, 1, keep) : keep \in {k \in SUBSET (1..Len(seq)) : Cardinality(k) <= max}}

\* main sorts the names with a leading '@' dropped, by localeCompare; these
\* are the names of each family in that order
TreeNames == <<ALPHA, BETA, GAMMA>>
TypeNames == <<LODASH, NODE, SCOPED, TYPES_LODASH, TYPES_NODE, TYPES_SCOPED, TYPESCRIPT>>

SourceFile(name, ext, stmts) ==
    [dir |-> <<"src">>, base |-> <<name, ".", ext>>, binary |-> FALSE,
     readable |-> TRUE, parses |-> TRUE, stmts |-> stmts, mentions |-> {},
     json |-> FALSE, leaves |-> {}]

Stmt(kind, src) == [kind |-> kind, src |-> src]

\* a file the process may not open (mode 000)
UnreadableFile(name, ext) ==
    [dir |-> <<"src">>, base |-> <<name, ".", ext>>, binary |-> FALSE,
     readable |-> FALSE, parses |-> FALSE, stmts |-> <<>>, mentions |-> {},
     json |-> FALSE, leaves |-> {}]

\* a file whose text the parser rejects
UnparsableFile(name, ext, stmts) ==
    [dir |-> <<"src">>, base |-> <<name, ".", ext>>, binary |-> FALSE,
     readable |-> TRUE, parses |-> FALSE, stmts |-> stmts, mentions |-> {},
     json |-> FALSE, leaves |-> {}]

TreeFiles ==
    << SourceFile("a", "js", <<Stmt("import", ALPHA)>>),
       SourceFile("b", "js", <<Stmt("require", BETA \o <<"/", "lib">>)>>) >>

TypeFiles ==
    << SourceFile("t", "ts", <<>>),
       SourceFile("u", "js", <<Stmt("import", LODASH)>>),
       SourceFile("v", "ts", <<Stmt("dynamic", LODASH \o <<"/", "fp">>)>>),
       SourceFile("w", "ts", <<Stmt("importType", SCOPED \o <<"/", "sub">>)>>),
       SourceFile("x", "js", <<Stmt("dynamic", SCOPED), Stmt("importEquals", NODE)>>),
       SourceFile("y", "tsx", <<Stmt("import", <<"@", "app">>),
                                Stmt("require", LODASH \o <<"/", "fp">>)>>),
       SourceFile("z", "js", <<Stmt("import", <<"@", "x", "/", "p">>)>>) >>

\* files that cannot be opened or cannot be parsed
FaultFiles ==
    << UnreadableFile("q", "ts"),
       UnparsableFile("r", "js", <<Stmt("require", LODASH)>>) >>

\* requires-edges <<package, required name>> of the installed tree
CandidateEdges ==
    { <<BETA, ALPHA>>, <<GAMMA, BETA>>, <<GAMMA, ALPHA>>, <<ALPHA, GAMMA>>,
      <<ALPHA, ALPHA>>, <<MID, ALPHA>>, <<BETA, MID>>, <<MID, BETA>>,
      <<MID, MID>>, <<GAMMA, MID>> }

\* a peerDependencies entry
PeerEdges == { <<LODASH, TYPES_SCOPED>> }

InstalledTree(packages, edges) ==
    [package \in packages |-> {e[2] : e \in {x \in edges : x[1] = package}}]

\* the project manifest; valid is FALSE when package.json cannot be read or
\* is not JSON
NoScripts == [scripts |-> {}, leaves |-> {}, valid |-> TRUE]
NodeScript == [scripts |-> {<<NODE, <<"index", ".", "js">>>>}, leaves |-> {}, valid |-> TRUE]
BrokenManifest == [scripts |-> {}, leaves |-> {}, valid |-> FALSE]
TypesInTSConfig == [present |-> TRUE, types |-> {LODASH}, typeRoots |-> {}]

DefaultOptions == [aggressive |-> FALSE, safe |-> Undefined, dryRun |-> FALSE]

OptionSets ==
    { DefaultOptions,
      [aggressive |-> TRUE, safe |-> Undefined, dryRun |-> FALSE],
      [aggressive |-> FALSE, safe |-> LODASH, dryRun |-> FALSE],
      [aggressive |-> TRUE, safe |-> LODASH, dryRun |-> FALSE] }

TreeScenarios ==
    { [declared |-> d, files |-> f, manifest |-> NoScripts, tsconfig |-> NoTSConfig,
       nodeModules |-> InstalledTree({ALPHA, BETA, GAMMA, MID}, e),
       peerDependencies |-> InstalledTree({ALPHA, BETA, GAMMA, MID}, {}),
       manifestFaults |-> EmptyMap] :
        d \in {<<ALPHA, BETA, GAMMA>>, <<ALPHA, GAMMA>>},
        f \in SubSequences(TreeFiles, 1),
        e \in {x \in SUBSET CandidateEdges : Cardinality(x) <= MaxEdges} }

\* the packages that list a peer dependency are installed, declared or not
TypeScenarios ==
    { [declared |-> d, files |-> f, manifest |-> env[1], tsconfig |-> env[2],
       nodeModules |-> InstalledTree(SeqToSet(d) \cup {e[1] : e \in env[3]}, env[3]),
       peerDependencies |-> InstalledTree(SeqToSet(d) \cup {e[1] : e \in env[3]}, env[3]),
       manifestFaults |-> EmptyMap] :
        d \in SubSequences(TypeNames, MaxDeps),
        f \in SubSequences(TypeFiles, MaxFiles),
        env \in {<<NoScripts, NoTSConfig, {}>>, <<NodeScript, NoTSConfig, {}>>,
                 <<NoScripts, TypesInTSConfig, {}>>, <<NoScripts, NoTSConfig, PeerEdges>>} }

\* requires-edges of the trees with a faulty manifest
FaultEdges ==
    { <<BETA, ALPHA>>, <<GAMMA, BETA>>, <<GAMMA, ALPHA>>, <<BETA, MID>>,
      <<GAMMA, MID>>, <<MID, ALPHA>> }

\* the edge sets of a tree whose faulty package has no readable requires
FaultEdgeSets(faulty) ==
    {x \in SUBSET {edge \in FaultEdges : edge[1] # faulty} : Cardinality(x) <= MaxEdges}

\* installed trees in which the manifest of one package is unreadable, or is
\* the JSON text null
FaultScenarios ==
    UNION { { [declared |-> d, files |-> <<>>, manifest |-> NoScripts,
               tsconfig |-> NoTSConfig,
               nodeModules |-> InstalledTree({ALPHA, BETA, GAMMA, MID}, e),
               peerDependencies |-> InstalledTree({ALPHA, BETA, GAMMA, MID}, {}),
               manifestFaults |-> [package \in {faulty} |-> fault]] :
                d \in {<<ALPHA, BETA, GAMMA>>, <<ALPHA, GAMMA>>},
                fault \in {"unreadable", "null"},
                e \in FaultEdgeSets(faulty) } : faulty \in {BETA, MID} }

Scenarios == TreeScenarios \cup TypeScenarios \cup FaultScenarios

\* the installed trees main is run on
MainScenarios ==
    {sc \in TreeScenarios :
        Cardinality(UNION {sc.nodeModules[p] : p \in DOMAIN sc.nodeModules}) <= 1}
    \cup TypeScenarios

JEST == <<"jest">>

\* a file named jest.config.js in directory dir: no import, and the word
\* jest in its text
JestConfigFile(dir) ==
    [dir |-> dir, base |-> <<"jest", ".", "config", ".", "js">>, binary |-> FALSE,
     readable |-> TRUE, parses |-> TRUE, stmts |-> <<>>, mentions |-> {JEST},
     json |-> FALSE, leaves |-> {}]

JestFiles ==
    << JestConfigFile(<<>>), JestConfigFile(<<"config">>),
       SourceFile("u", "js", <<Stmt("import", LODASH)>>) >>

\* projects that declare jest and hold a jest.config.js
JestScenarios ==
    { [declared |-> d, files |-> f, manifest |-> NoScripts, tsconfig |-> NoTSConfig,
       nodeModules |-> InstalledTree(SeqToSet(d), {}),
       peerDependencies |-> InstalledTree(SeqToSet(d), {}),
       manifestFaults |-> EmptyMap] :
        d \in {<<JEST>>, <<JEST, LODASH>>},
        f \in SubSequences(JestFiles, MaxFiles) \ {<<>>} }

\* projects with a file that cannot be opened or parsed
FaultFileScenarios ==
    { [declared |-> d, files |-> f, manifest |-> man, tsconfig |-> NoTSConfig,
       nodeModules |-> InstalledTree(SeqToSet(d), {}),
       peerDependencies |-> InstalledTree(SeqToSet(d), {}),
       manifestFaults |-> EmptyMap] :
        d \in {<<LODASH>>, <<LODASH, NODE>>},
        f \in SubSequences(FaultFiles, MaxFiles) \ {<<>>},
        man \in {NoScripts, NodeScript} }

\* projects whose package.json cannot be read or parsed
BrokenManifestScenarios ==
    { [declared |-> <<>>, files |-> f, manifest |-> BrokenManifest,
       tsconfig |-> NoTSConfig, nodeModules |-> EmptyMap,
       peerDependencies |-> EmptyMap, manifestFaults |-> EmptyMap] :
        f \in SubSequences(FaultFiles, MaxFiles) }

\* v8 heap_size_limit values, in KiB
HeapLimits == {102400, 512000, 563200, 8388608}

OutcomePatterns == {"used", "unused", "mixed", "shifted"}

\* what matching the file at position i yields under a pattern
OutcomeAt(pattern, i) ==
    IF pattern \in {"used", "unused"} THEN pattern
    ELSE IF pattern = "mixed"
    THEN (IF i % 3 = 1 THEN "used" ELSE IF i % 3 = 2 THEN "unused" ELSE "error")
    ELSE (IF i % 3 = 1 THEN "error" ELSE IF i % 3 = 2 THEN "used" ELSE "unused")

-----------------------------------------------------------------------------
(* The run of the DependencyInfo engine *)

\* the computation counts after a query for dep that did or did not compute
Computed(counts, dep, computed) ==
    [k \in DOMAIN counts \cup {CacheKey(dep)} |->
        (IF k \in DOMAIN counts THEN counts[k] ELSE 0)
        + (IF k = CacheKey(dep) /\ computed THEN 1 ELSE 0)]

\* sourceFiles: the manifest and the other files of the corpus
SourceFiles == <<ManifestFile(manifest, declared)>> \o files

Context == getPackageContext(manifest, declared, SourceFiles)

\* what reading node_modules yields in this run
Installed == packageJsonResults(nodeModules, manifestFaults)

NoPrev == [unused |-> {}, evidence |-> EmptyMap]

NoPrevScan == [results |-> <<>>, totalErrors |-> 0, progress |-> <<>>]

Evidence == [d \in DOMAIN infoOf |-> infoOf[d].usedInFiles]

\* the project and the options of a scenario
InputsAre(sc, opts) ==
    /\ declared = sc.declared
    /\ files = sc.files
    /\ manifest = sc.manifest
    /\ tsconfig = sc.tsconfig
    /\ nodeModules = sc.nodeModules
    /\ peerDependencies = sc.peerDependencies
    /\ manifestFaults = sc.manifestFaults
    /\ options = opts

NoProject ==
    [declared |-> <<>>, files |-> <<>>, manifest |-> NoScripts, tsconfig |-> NoTSConfig,
     nodeModules |-> EmptyMap, peerDependencies |-> EmptyMap,
     manifestFaults |-> EmptyMap]

\* the state of each part before it is started
EngineAt(position) ==
    /\ pc = position
    /\ depIndex = 1
    /\ depInfoCache = EmptyMap
    /\ infoOf = EmptyMap
    /\ computations = EmptyMap
    /\ inProgress = <<>>
    /\ unused = {}
    /\ passes = 0
    /\ run = 1
    /\ prev = NoPrev

\* no lock file, nothing typed, nothing executed
RemoveIdle ==
    /\ lockFiles = {}
    /\ answer = ""
    /\ executed = <<>>
    /\ evaluation = EmptyMap
    /\ calls = EmptyMap

MainIdle ==
    /\ dependencyUsage = EmptyMap
    /\ unusedDependencies = <<>>
    /\ safeUnused = <<>>
    /\ RemoveIdle

ScanWith(position, heap, used, outcomes) ==
    /\ heapSizeLimit = heap
    /\ usedHeapSize = used
    /\ batchSize = 0
    /\ scanFiles = outcomes
    /\ index = 0
    /\ inFlight = {}
    /\ batchResults = EmptyMap
    /\ results = <<>>
    /\ totalErrors = 0
    /\ progress = <<>>
    /\ scanPc = position
    /\ scanRun = 1
    /\ prevScan = NoPrevScan

ScanAt(position, heap, outcomes) == ScanWith(position, heap, 0, outcomes)

Init ==
    /\ \E sc \in Scenarios : InputsAre(sc, DefaultOptions)
    /\ EngineAt("analyze")
    /\ MainIdle
    /\ ScanAt("idle", 0, <<>>)

\* one getDependencyInfo query for the next declared dependency
Analyze ==
    /\ pc = "analyze"
    /\ depIndex <= Len(declared)
    /\ LET dep == declared[depIndex]
           got == getDependencyInfo(dep, Context, SourceFiles, SeqToSet(declared),
                                    tsconfig, Installed, depInfoCache)
       IN  /\ infoOf' = [d \in DOMAIN infoOf \cup {dep} |->
                            IF d = dep THEN got.info ELSE infoOf[d]]
           /\ depInfoCache' = got.cache
           /\ computations' = Computed(computations, dep, got.computed)
    /\ depIndex' = depIndex + 1
    /\ UNCHANGED <<inputs, pc, inProgress, unused, passes, run, prev, mainVars,
                   scanVars>>

\* the initial unused set, once every dependency has its DependencyInfo
StartResolve ==
    /\ pc = "analyze"
    /\ depIndex > Len(declared)
    /\ unused' = InitialUnusedSet(declared, infoOf)
    /\ pc' = "closure"
    /\ UNCHANGED <<inputs, depIndex, depInfoCache, infoOf, computations, inProgress,
                   passes, run, prev, mainVars, scanVars>>

\* one whole closure pass; the loop ends after a pass that adds nothing
ClosurePass ==
    /\ pc = "closure"
    /\ passes <= Len(declared) + 1
    /\ unused' = ClosurePassResult(declared, infoOf, unused)
    /\ passes' = passes + 1
    /\ pc' = IF PassAdded(unused, unused') THEN "closure" ELSE "done"
    /\ UNCHANGED <<inputs, depIndex, depInfoCache, infoOf, computations, inProgress,
                   run, prev, mainVars, scanVars>>

\* the engine is run again in the same process on the same inputs
Rerun ==
    /\ pc = "done"
    /\ run = 1
    /\ prev' = [unused |-> unused, evidence |-> Evidence]
    /\ run' = 2
    /\ pc' = "analyze"
    /\ depIndex' = 1
    /\ infoOf' = EmptyMap
    /\ computations' = EmptyMap
    /\ unused' = {}
    /\ passes' = 0
    /\ UNCHANGED <<inputs, depInfoCache, inProgress, mainVars, scanVars>>

Next == Analyze \/ StartResolve \/ ClosurePass \/ Rerun

Spec == Init /\ [][Next]_vars

-----------------------------------------------------------------------------
(* The resolver given the dependencies in any order, and visiting them in
   any order in each closure pass *)

\* the lists that hold the elements of seq in some order
Orders(seq) ==
    {[i \in 1..Len(seq) |-> seq[order[i]]] :
        order \in {f \in [1..Len(seq) -> 1..Len(seq)] :
                      \A i, j \in 1..Len(seq) : f[i] = f[j] => i = j}}

OrdersInit ==
    /\ \E sc \in TreeScenarios : \E order \in Orders(sc.declared) :
          InputsAre([sc EXCEPT !.declared = order], DefaultOptions)
    /\ EngineAt("analyze")
    /\ MainIdle
    /\ ScanAt("idle", 0, <<>>)

\* one whole closure pass that visits the dependencies in some order
ClosurePassInOrder ==
    /\ pc = "closure"
    /\ passes <= Len(declared) + 1
    /\ \E order \in Orders(declared) :
          /\ unused' = ClosurePassResult(order, infoOf, unused)
          /\ pc' = IF PassAdded(unused, unused') THEN "closure" ELSE "done"
    /\ passes' = passes + 1
    /\ UNCHANGED <<inputs, depIndex, depInfoCache, infoOf, computations, inProgress,
                   run, prev, mainVars, scanVars>>

OrdersNext == Analyze \/ StartResolve \/ ClosurePassInOrder

SpecOrders == OrdersInit /\ [][OrdersNext]_vars

-----------------------------------------------------------------------------
(* index.ts main: from the dependency loop to the protected filter *)

MainInit ==
    /\ \E sc \in MainScenarios \cup FaultFileScenarios \cup BrokenManifestScenarios
                  \cup JestScenarios :
          \E opts \in OptionSets : InputsAre(sc, opts)
    /\ EngineAt("start")
    /\ MainIdle
    /\ ScanAt("idle", 0, <<>>)

\* getDependencies: fs.readFile and JSON.parse of the project manifest
getDependenciesThrows(man) == ~man.valid

\* getSourceFiles: isBinaryFileSync opens every file globby lists
\* (fs.openSync), which throws for a file the process may not open
getSourceFilesThrows(allFiles) == \E i \in 1..Len(allFiles) : ~allFiles[i].readable

\* main up to the dependency loop: getPackageContext (which calls
\* getDependencies and getSourceFiles), getDependencies, getSourceFiles; an
\* exception reaches main's catch, which exits with status 1
ReadProject ==
    /\ pc = "start"
    /\ pc' = IF getDependenciesThrows(manifest) \/ getSourceFilesThrows(files)
             THEN "aborted" ELSE "loop"
    /\ UNCHANGED <<inputs, depIndex, depInfoCache, infoOf, computations, inProgress,
                   unused, passes, run, prev, mainVars, scanVars>>

\* one iteration of for (const dep of dependencies)
CheckDependency ==
    /\ pc = "loop"
    /\ depIndex <= Len(declared)
    /\ LET dep == declared[depIndex]
           usageFiles == processFilesInParallel(SourceFiles, dep, Context)
       IN  /\ unusedDependencies' =
                  IF usageFiles = <<>> THEN Append(unusedDependencies, dep)
                  ELSE unusedDependencies
           /\ dependencyUsage' = [d \in DOMAIN dependencyUsage \cup {dep} |->
                                     IF d = dep THEN usageFiles ELSE dependencyUsage[d]]
    /\ depIndex' = depIndex + 1
    /\ UNCHANGED <<inputs, pc, depInfoCache, infoOf, computations, inProgress,
                   unused, passes, run, prev, safeUnused, removeVars, scanVars>>

\* the type packages that support a used installed package leave the list
FilterTypePackages ==
    /\ pc = "loop"
    /\ depIndex > Len(declared)
    /\ LET installedPackages ==
               FilterNames(declared, {d \in SeqToSet(declared) : ~StartsWith(d, TYPES_PREFIX)})
           stay == {d \in SeqToSet(unusedDependencies) :
                       ~isTypePackageUsed(d, installedPackages, unusedDependencies,
                                          Context, SourceFiles, peerDependencies).isUsed}
       IN  unusedDependencies' = FilterNames(unusedDependencies, stay)
    /\ pc' = "protect"
    /\ UNCHANGED <<inputs, depIndex, depInfoCache, infoOf, computations, inProgress,
                   unused, passes, run, prev, dependencyUsage, safeUnused, removeVars,
                   scanVars>>

\* the members of safeSet move from unusedDependencies to safeUnused
FilterProtected ==
    /\ pc = "protect"
    /\ LET safeSet == SafeSet(options)
       IN  IF safeSet # {}
           THEN /\ safeUnused' = FilterNames(unusedDependencies, safeSet)
                /\ unusedDependencies' =
                       FilterNames(unusedDependencies,
                                   SeqToSet(unusedDependencies) \ safeSet)
           ELSE UNCHANGED <<safeUnused, unusedDependencies>>
    /\ pc' = "reported"
    /\ UNCHANGED <<inputs, depIndex, depInfoCache, infoOf, computations, inProgress,
                   unused, passes, run, prev, dependencyUsage, removeVars, scanVars>>

MainNext == ReadProject \/ CheckDependency \/ FilterTypePackages \/ FilterProtected

SpecMain == MainInit /\ [][MainNext]_vars

-----------------------------------------------------------------------------
(* index.ts main: after the protected filter *)

SPACED == <<"left", " ", "pad">>
DOLLAR == <<"pkg", "$">>
EMPTY_NAME == <<>>

\* keys a manifest may hold in its dependency sections
RemoveNames == <<ALPHA, LODASH, SPACED, DOLLAR, EMPTY_NAME>>

Answers == {"y", "Y", "yes", "n", ""}

DryRunOptions == [aggressive |-> FALSE, safe |-> Undefined, dryRun |-> TRUE]

\* main after its filters, with every declared dependency found unused
RemoveInit ==
    /\ \E d \in SubSequences(RemoveNames, MaxDeps) :
          /\ InputsAre([declared |-> d, files |-> <<>>, manifest |-> NoScripts,
                        tsconfig |-> NoTSConfig,
                        nodeModules |-> InstalledTree(SeqToSet(d), {}),
                        peerDependencies |-> InstalledTree(SeqToSet(d), {}),
                        manifestFaults |-> EmptyMap],
                       DefaultOptions)
             \/ InputsAre([declared |-> d, files |-> <<>>, manifest |-> NoScripts,
                           tsconfig |-> NoTSConfig,
                           nodeModules |-> InstalledTree(SeqToSet(d), {}),
                           peerDependencies |-> InstalledTree(SeqToSet(d), {}),
                           manifestFaults |-> EmptyMap],
                          DryRunOptions)
          /\ dependencyUsage = [name \in SeqToSet(d) |-> <<>>]
          /\ unusedDependencies = d
    /\ safeUnused = <<>>
    /\ lockFiles \in SUBSET {YARN_LOCK, PNPM_LOCK}
    /\ answer = ""
    /\ executed = <<>>
    /\ evaluation = EmptyMap
    /\ calls = EmptyMap
    /\ EngineAt("reported")
    /\ ScanAt("idle", 0, <<>>)

\* the report of the unused dependencies, up to the prompt
Report ==
    /\ pc = "reported"
    /\ pc' = ReportTarget(unusedDependencies, options)
    /\ UNCHANGED <<inputs, depIndex, depInfoCache, infoOf, computations, inProgress,
                   unused, passes, run, prev, mainVars, scanVars>>

\* the answer to rl.question and what main does with it; execSync itself
\* succeeds or fails
AnswerPrompt ==
    /\ pc = "prompt"
    /\ \E typed \in Answers, succeeds \in BOOLEAN :
          /\ answer' = typed
          /\ IF ToLowerCase(typed) = "y"
             THEN LET uninstallCommand ==
                          UninstallCommand(detectPackageManager(lockFiles),
                                           unusedDependencies)
                      valid == FilterNames(unusedDependencies,
                                           {name \in SeqToSet(unusedDependencies) :
                                               isValidPackageName(name)})
                      command == SplitSpace(uninstallCommand)
                  IN  /\ unusedDependencies' = valid
                      /\ IF valid = <<>>
                         THEN /\ executed' = executed
                              /\ pc' = "ended"
                         ELSE IF safeExecSyncThrows(command)
                         THEN /\ executed' = executed
                              /\ pc' = "exit1"
                         ELSE /\ executed' = Append(executed, command)
                              /\ pc' = IF succeeds THEN "ended" ELSE "exit1"
             ELSE /\ pc' = "ended"
                  /\ UNCHANGED <<unusedDependencies, executed>>
    /\ UNCHANGED <<inputs, depIndex, depInfoCache, infoOf, computations, inProgress,
                   unused, passes, run, prev, dependencyUsage, safeUnused, lockFiles,
                   evaluation, calls, scanVars>>

RemoveNext == Report \/ AnswerPrompt

SpecRemove == RemoveInit /\ [][RemoveNext]_vars

-----------------------------------------------------------------------------
(* safeExecSync of index.ts and of helpers.ts called with a command array *)

ExecFirsts == {NPM, YARN, PNPM, <<"NPM">>, <<"constructor">>, <<"node">>, <<>>}

ExecArguments == <<<<"uninstall">>, LODASH, <<>>>>

\* the argument lists: up to two arguments, in every order
ExecArgumentLists ==
    {<<>>} \cup {<<ExecArguments[i]>> : i \in 1..Len(ExecArguments)}
           \cup {<<ExecArguments[i], ExecArguments[j]>> :
                     i \in 1..Len(ExecArguments), j \in 1..Len(ExecArguments)}

ExecCommands == {<<>>} \cup {<<first>> \o arguments :
                                first \in ExecFirsts, arguments \in ExecArgumentLists}

ExecInit ==
    /\ InputsAre(NoProject, DefaultOptions)
    /\ EngineAt("exec")
    /\ MainIdle
    /\ ScanAt("idle", 0, <<>>)

\* what a call does: whether the command reached execSync and whether the
\* call threw (execSync itself may fail, which is rethrown)
ExecOutcome(throwsBefore, succeeds) ==
    [reachedExecSync |-> ~throwsBefore, threw |-> throwsBefore \/ ~succeeds]

\* one more call, recorded under its module and command
Called(module, command, outcome) ==
    /\ pc = "exec"
    /\ Cardinality(DOMAIN calls) < MaxCalls
    /\ <<module, command>> \notin DOMAIN calls
    /\ calls' = [key \in DOMAIN calls \cup {<<module, command>>} |->
                    IF key = <<module, command>> THEN outcome ELSE calls[key]]
    /\ UNCHANGED <<inputs, engineVars, dependencyUsage, unusedDependencies, safeUnused,
                   lockFiles, answer, executed, evaluation, scanVars>>

\* safeExecSync(command, options) of index.ts
CallSafeExecSync ==
    \E command \in ExecCommands, succeeds \in BOOLEAN :
        Called("index", command, ExecOutcome(safeExecSyncThrows(command), succeeds))

\* safeExecSync(command, options) of helpers.ts
CallSafeExecSyncHelpers ==
    \E command \in ExecCommands, succeeds \in BOOLEAN :
        Called("helpers", command,
               ExecOutcome(safeExecSyncHelpersThrows(command), succeeds))

SpecExec == ExecInit /\ [][CallSafeExecSync \/ CallSafeExecSyncHelpers]_vars

-----------------------------------------------------------------------------
(* isDependencyUsedInFile called on the files of a project *)

\* a file isBinaryFileSync takes for binary, whatever its text
BinaryFile(name, ext, stmts) ==
    [dir |-> <<"src">>, base |-> <<name, ".", ext>>, binary |-> TRUE,
     readable |-> TRUE, parses |-> TRUE, stmts |-> stmts, mentions |-> {},
     json |-> FALSE, leaves |-> {}]

\* jest.config.js in directory dir with the given text
ConfigFileWith(dir, mentions) ==
    [dir |-> dir, base |-> <<"jest", ".", "config", ".", "js">>, binary |-> FALSE,
     readable |-> TRUE, parses |-> TRUE, stmts |-> <<>>, mentions |-> mentions,
     json |-> FALSE, leaves |-> {}]

MatchFiles ==
    << SourceFile("u", "js", <<Stmt("import", LODASH)>>),
       SourceFile("v", "js", <<Stmt("dynamic", LODASH)>>),
       BinaryFile("b", "js", <<Stmt("import", LODASH)>>),
       UnparsableFile("r", "js", <<Stmt("require", LODASH)>>),
       ConfigFileWith(<<>>, {JEST}),
       ConfigFileWith(<<"config">>, {LODASH}) >>

MatchScenarios ==
    { [declared |-> d, files |-> f, manifest |-> man, tsconfig |-> NoTSConfig,
       nodeModules |-> InstalledTree(SeqToSet(d), {}),
       peerDependencies |-> InstalledTree(SeqToSet(d), {}),
       manifestFaults |-> EmptyMap] :
        d \in {<<LODASH>>, <<JEST, LODASH>>, <<LODASH, NODE>>},
        f \in SubSequences(MatchFiles, MaxFiles + 1),
        man \in {NoScripts, NodeScript} }

MatchInit ==
    /\ \E sc \in MatchScenarios : InputsAre(sc, DefaultOptions)
    /\ EngineAt("match")
    /\ MainIdle
    /\ ScanAt("idle", 0, <<>>)

\* one call isDependencyUsedInFile(dependency, files[i], context)
Match ==
    /\ pc = "match"
    /\ \E dependency \in SeqToSet(declared), i \in 1..Len(files) :
          /\ <<dependency, i>> \notin DOMAIN evaluation
          /\ evaluation' = [key \in DOMAIN evaluation \cup {<<dependency, i>>} |->
                               IF key = <<dependency, i>>
                               THEN EvaluationOf(dependency, files[i], Context)
                               ELSE evaluation[key]]
    /\ UNCHANGED <<inputs, engineVars, dependencyUsage, unusedDependencies, safeUnused,
                   lockFiles, answer, executed, calls, scanVars>>

SpecMatch == MatchInit /\ [][Match]_vars

-----------------------------------------------------------------------------
(* processFilesInParallel: the heap measurement at its start *)

\* const { total: maxMemory } = getMemoryUsage(); const BATCH_SIZE = ...
BatchSizeOf(memory) == BATCH_SIZE(memory.total)

HeapSizes == HeapLimits \cup {KiBPerBatch * k + 1 : k \in 0..MaxHeapSteps}

\* the fractions of the heap limit in use when the scan starts, in quarters
HeapQuarters == 0..4

HeapInit ==
    /\ InputsAre(NoProject, DefaultOptions)
    /\ EngineAt("idle")
    /\ MainIdle
    /\ \E heap \in HeapSizes, quarters \in HeapQuarters :
          ScanWith("measure", heap, (heap \div 4) * quarters, <<>>)

\* the first two statements of processFilesInParallel
MeasureHeap ==
    /\ scanPc = "measure"
    /\ batchSize' = BatchSizeOf(getMemoryUsage(heapSizeLimit, usedHeapSize))
    /\ scanPc' = "loop"
    /\ UNCHANGED <<inputs, engineVars, mainVars, heapSizeLimit, usedHeapSize, scanFiles,
                   index, inFlight, batchResults, results, totalErrors, progress,
                   scanRun, prevScan>>

\* an empty list: the loop test fails at once
ReturnEmpty ==
    /\ scanPc = "loop"
    /\ batchSize > 0
    /\ scanFiles = <<>>
    /\ scanPc' = "done"
    /\ UNCHANGED <<inputs, engineVars, mainVars, heapSizeLimit, heapVars, scanFiles, index,
                   inFlight, batchResults, results, totalErrors, progress, scanRun,
                   prevScan>>

SpecHeap == HeapInit /\ [][MeasureHeap \/ ReturnEmpty]_vars

-----------------------------------------------------------------------------
(* One processFilesInParallel call, batch by batch *)

ScanInit ==
    /\ InputsAre(NoProject, DefaultOptions)
    /\ EngineAt("idle")
    /\ MainIdle
    /\ \E heap \in HeapLimits, n \in 0..MaxScanFiles, pattern \in OutcomePatterns :
          ScanAt("loop", heap, [i \in 1..n |-> OutcomeAt(pattern, i)])

\* every file from index on, as positions of the list
RemainingPositions == (index + 1)..Len(scanFiles)

\* files.slice(index, index + BATCH_SIZE), as positions of the list
BatchPositions ==
    (index + 1)..Min2(index + BATCH_SIZE(heapSizeLimit), Len(scanFiles))

\* the loop test holds: the promises of the next batch are created
StartBatch ==
    /\ scanPc = "loop"
    /\ index < Len(scanFiles)
    /\ inFlight' = BatchPositions
    /\ batchResults' = EmptyMap
    /\ scanPc' = "await"
    /\ UNCHANGED <<inputs, engineVars, mainVars, heapSizeLimit, heapVars, scanFiles, index,
                   results, totalErrors, progress, scanRun, prevScan>>

\* the promise of one file of the batch settles
Settle(i) ==
    /\ scanPc = "await"
    /\ i \in inFlight
    /\ inFlight' = inFlight \ {i}
    /\ batchResults' = [k \in DOMAIN batchResults \cup {i} |->
                           IF k = i THEN processFile(i, scanFiles[i])
                           ELSE batchResults[k]]
    /\ UNCHANGED <<inputs, engineVars, mainVars, heapSizeLimit, heapVars, scanFiles, index,
                   results, totalErrors, progress, scanPc, scanRun, prevScan>>

\* Promise.allSettled resolves: results, error count and progress of the batch
FinishBatch ==
    /\ scanPc = "await"
    /\ inFlight = {}
    /\ LET batch == BatchPositions
           outcome == processResultsFrom(batchResults, index + 1,
                                         index + Cardinality(batch))
       IN  /\ results' = results \o outcome.validResults
           /\ totalErrors' = totalErrors + outcome.errors
           /\ progress' = Append(progress,
                                 Processed(index, Cardinality(batch), Len(scanFiles)))
    /\ index' = index + BATCH_SIZE(heapSizeLimit)
    /\ scanPc' = "loop"
    /\ UNCHANGED <<inputs, engineVars, mainVars, heapSizeLimit, heapVars, scanFiles, inFlight,
                   batchResults, scanRun, prevScan>>

\* the loop test fails: the results are returned
Return ==
    /\ scanPc = "loop"
    /\ index >= Len(scanFiles)
    /\ scanPc' = "done"
    /\ UNCHANGED <<inputs, engineVars, mainVars, heapSizeLimit, heapVars, scanFiles, index,
                   inFlight, batchResults, results, totalErrors, progress, scanRun,
                   prevScan>>

\* the same list is scanned again
Rescan ==
    /\ scanPc = "done"
    /\ scanRun = 1
    /\ prevScan' = [results |-> results, totalErrors |-> totalErrors,
                    progress |-> progress]
    /\ scanRun' = 2
    /\ index' = 0
    /\ inFlight' = {}
    /\ batchResults' = EmptyMap
    /\ results' = <<>>
    /\ totalErrors' = 0
    /\ progress' = <<>>
    /\ scanPc' = "loop"
    /\ UNCHANGED <<inputs, engineVars, mainVars, heapSizeLimit, heapVars, scanFiles>>

ScanNext ==
    \/ StartBatch
    \/ \E i \in inFlight : Settle(i)
    \/ FinishBatch
    \/ Return
    \/ Rescan

SpecScan == ScanInit /\ [][ScanNext]_vars

\* two runs of the engine, or two scans of a list
SpecTwice == (Init \/ ScanInit) /\ [][Next \/ ScanNext]_vars

-----------------------------------------------------------------------------
(* The queries of one run as asynchronous calls: a getDependencyInfo call
   checks the cache when it starts and writes it when it completes; the
   scheduler treats one dependency before it moves to the next. *)

\* names a manifest declares, one of them in two sections
QueryNames == <<ALPHA, ALPHA, LODASH, TYPES_LODASH, TYPES_NODE>>

QueryFiles ==
    << SourceFile("t", "ts", <<>>),
       SourceFile("u", "js", <<Stmt("import", LODASH)>>) >>

QueryScenarios ==
    { [declared |-> d, files |-> f, manifest |-> NoScripts, tsconfig |-> NoTSConfig,
       nodeModules |-> InstalledTree(SeqToSet(d), e),
       peerDependencies |-> InstalledTree(SeqToSet(d), {}),
       manifestFaults |-> EmptyMap] :
        d \in SubSequences(QueryNames, MaxDeps) \ {<<>>},
        f \in SubSequences(QueryFiles, MaxFiles),
        e \in {{}, {<<LODASH, ALPHA>>}} }

QueriesInit ==
    /\ \E sc \in QueryScenarios : InputsAre(sc, DefaultOptions)
    /\ EngineAt("queries")
    /\ MainIdle
    /\ ScanAt("idle", 0, <<>>)

\* the scheduler starts a query with every computing call starting at once
MayStartAnyway(computing) == TRUE

\* the scheduler awaits the query it has started before it starts another
MayStart(computing) == computing = <<>>

\* getDependencyInfo(dep) up to its first await: a hit returns the cached
\* object, a miss starts a computation
StartQuery(dep) ==
    IF CacheKey(dep) \in DOMAIN depInfoCache
    THEN /\ infoOf' = [d \in DOMAIN infoOf \cup {dep} |->
                          IF d = dep THEN depInfoCache[CacheKey(dep)] ELSE infoOf[d]]
         /\ UNCHANGED <<computations, inProgress>>
    ELSE /\ Computed(computations, dep, TRUE)[CacheKey(dep)] <= MaxComputations
         /\ computations' = Computed(computations, dep, TRUE)
         /\ inProgress' = Append(inProgress, dep)
         /\ UNCHANGED infoOf

\* the first query for the next declared dependency
QueryNext ==
    /\ pc = "queries"
    /\ depIndex <= Len(declared)
    /\ MayStart(inProgress)
    /\ StartQuery(declared[depIndex])
    /\ depIndex' = depIndex + 1
    /\ UNCHANGED <<inputs, pc, depInfoCache, unused, passes, run, prev, mainVars,
                   scanVars>>

\* a later query of the run for a dependency already queried
QueryAgain ==
    /\ pc = "queries"
    /\ depIndex > Len(declared)
    /\ MayStart(inProgress)
    /\ \E dep \in DOMAIN infoOf : StartQuery(dep)
    /\ UNCHANGED <<inputs, pc, depIndex, depInfoCache, unused, passes, run, prev,
                   mainVars, scanVars>>

\* a computation completes: the branch that reaches depInfoCache.set writes
\* its entry, and the call returns its info
FinishQuery ==
    /\ pc = "queries"
    /\ \E i \in 1..Len(inProgress) :
          LET dep == inProgress[i]
              got == getDependencyInfo(dep, Context, SourceFiles, SeqToSet(declared),
                                       tsconfig, Installed, EmptyMap)
          IN  /\ infoOf' = [d \in DOMAIN infoOf \cup {dep} |->
                               IF d = dep THEN got.info ELSE infoOf[d]]
              /\ depInfoCache' = [k \in DOMAIN depInfoCache \cup DOMAIN got.cache |->
                                     IF k \in DOMAIN got.cache THEN got.cache[k]
                                     ELSE depInfoCache[k]]
              /\ inProgress' = SubSeq(inProgress, 1, i - 1)
                                \o SubSeq(inProgress, i + 1, Len(inProgress))
    /\ UNCHANGED <<inputs, pc, depIndex, computations, unused, passes, run, prev,
                   mainVars, scanVars>>

QueriesNext == QueryNext \/ QueryAgain \/ FinishQuery

SpecQueries == QueriesInit /\ [][QueriesNext]_vars

-----------------------------------------------------------------------------
(* Reference notions the properties are stated with *)

IsTypesPackage(d) == StartsWith(d, TYPES_PREFIX)

TopLevel == SeqToSet(declared)

\* the packages from which target is reached along requires-edges through
\* packages that are not top-level dependencies
RECURSIVE ReachingThroughIntermediates(_)
ReachingThroughIntermediates(reached) ==
    LET more == {package \in DOMAIN nodeModules \ TopLevel :
                    nodeModules[package] \cap reached # {}}
    IN  IF more \subseteq reached THEN reached
        ELSE ReachingThroughIntermediates(reached \cup more)

\* the top-level dependencies that require d directly or through
\* intermediate installed packages
TopLevelRequirers(d) ==
    {t \in DOMAIN nodeModules \cap TopLevel :
        nodeModules[t] \cap ReachingThroughIntermediates({d}) # {}}

\* the installed packages from which a package of reached is reached along
\* requires-edges, top-level dependencies on the way included
RECURSIVE Reaching(_)
Reaching(reached) ==
    LET more == {package \in DOMAIN nodeModules : nodeModules[package] \cap reached # {}}
    IN  IF more \subseteq reached THEN reached
        ELSE Reaching(reached \cup more)

\* the top-level dependencies that transitively require d
TransitiveRequirers(d) ==
    {t \in DOMAIN nodeModules \cap TopLevel : nodeModules[t] \cap Reaching({d}) # {}}

\* the least set above unusedSet that the closure condition adds nothing to
RECURSIVE ClosureOf(_, _)
ClosureOf(info, unusedSet) ==
    LET more == {d \in DOMAIN info : Promotable(d, info, unusedSet)}
    IN  IF more = {} THEN unusedSet ELSE ClosureOf(info, unusedSet \cup more)

\* the passes of the resolver over one fixed list, to the pass that adds nothing
RECURSIVE PassesToEnd(_, _, _)
PassesToEnd(dependencies, info, unusedSet) ==
    LET after == ClosurePassResult(dependencies, info, unusedSet)
    IN  IF after = unusedSet THEN unusedSet
        ELSE PassesToEnd(dependencies, info, after)

\* no file of the corpus is evidence of use of d for the Usage Matcher
NoEvidence(d) ==
    \A i \in 1..Len(SourceFiles) : ~isDependencyUsedInFile(d, SourceFiles[i], Context)

\* the resolver has ended
Finished == pc = "done"

\* main has passed its last filter
MainFinished == pc = "reported"

\* main has ended in its catch block
MainAborted == pc = "aborted"

\* the signals the matcher takes from the context before it opens the file
ContextSignals(d, file) ==
    \/ ManifestSignal(d, file, Context)
    \/ ConfigSignal(d, file, Context)
    \/ ScriptSignal(d, Context)

\* what main found unused: the list it offers for removal and the list it
\* holds back as protected
MainUnused == SeqToSet(unusedDependencies) \cup SeqToSet(safeUnused)

\* the DependencyInfo a first query for d returns on the inputs of the run
DependencyInfoOf(d) ==
    getDependencyInfo(d, Context, SourceFiles, TopLevel, tsconfig, Installed,
                      EmptyMap).info

\* the import forms of C4
ImportForms == {"import", "require", "dynamic", "importType"}

\* some corpus file refers to d, or to a sub-path of d, through one of the forms
RefersTo(d) ==
    \E i \in 1..Len(SourceFiles) : \E j \in 1..Len(SourceFiles[i].stmts) :
        LET stmt == SourceFiles[i].stmts[j]
        IN  /\ stmt.kind \in ImportForms
            /\ stmt.src = d \/ StartsWith(stmt.src, d \o <<"/">>)

\* no file imports d by its own name or a sub-path of it
NotImported(d) ==
    \A i \in 1..Len(SourceFiles) : \A j \in 1..Len(SourceFiles[i].stmts) :
        LET stmt == SourceFiles[i].stmts[j]
        IN  ~(stmt.src = d \/ StartsWith(stmt.src, d \o <<"/">>))

\* d occurs in no script, no manifest value and no configuration content
NotMentioned(d) ==
    /\ ~ScriptSignal(d, Context)
    /\ \A k \in DOMAIN Context.configs :
          /\ \A leaf \in Context.configs[k].leaves : ~Includes(leaf, d)
          /\ \A chunk \in Context.configs[k].chunks : ~Includes(chunk, d)

\* the files among the first n of the scanned list whose matching succeeds
\* with "used", in list order
RECURSIVE UsedUpTo(_)
UsedUpTo(n) ==
    IF n = 0 THEN <<>>
    ELSE UsedUpTo(n - 1) \o (IF scanFiles[n] = "used" THEN <<n>> ELSE <<>>)

\* the number of files among the first n whose matching fails
ErrorsUpTo(n) == Cardinality({i \in 1..n : scanFiles[i] = "error"})

\* the files of the batches that are complete
BatchesDone == Min2(index, Len(scanFiles))

\* a is a prefix of b
IsPrefix(a, b) == Len(a) <= Len(b) /\ SubSeq(b, 1, Len(a)) = a

\* the positions at which the file loop of getDependencyInfo(d) pushes
UsedPositions(d) ==
    IF ~IsTypesPackage(d) THEN PackageUsedPositions(d, Context, SourceFiles)
    ELSE IF normalizeTypesPackage(d) = NODE /\ hasTSFiles(SourceFiles) THEN {}
    ELSE TypesUsedPositions(d, Context, SourceFiles)

\* the installed tree without the packages whose manifest is faulty
WithoutFaulty ==
    packageJsonResults([package \in DOMAIN nodeModules \ DOMAIN manifestFaults |->
                           nodeModules[package]], EmptyMap)

-----------------------------------------------------------------------------
(* C1: a chain A <- B <- C of sole requirers, C unrequired and none of the
   three directly used, ends with A, B and C all in the unused set of the
   same resolver run; stated on the installed tree and on DependencyInfo. *)
C1_ChainAllUnused ==
    Finished =>
        \A a, b, c \in TopLevel :
            /\ ( /\ Cardinality({a, b, c}) = 3
                 /\ \A d \in {a, b, c} : ~IsTypesPackage(d) /\ NoEvidence(d)
                 /\ TopLevelRequirers(a) = {b}
                 /\ TopLevelRequirers(b) = {c}
                 /\ TopLevelRequirers(c) = {}
                 => {a, b, c} \subseteq unused )
            /\ ( /\ Cardinality({a, b, c}) = 3
                 /\ \A d \in {a, b, c} : infoOf[d].usedInFiles = <<>>
                 /\ infoOf[a].requiredByPackages = {b}
                 /\ infoOf[b].requiredByPackages = {c}
                 /\ infoOf[c].requiredByPackages = {}
                 => {a, b, c} \subseteq unused )

\* the chain alpha <- beta <- gamma, which takes more than one pass
C1_Witness ==
    /\ Finished
    /\ declared = <<ALPHA, BETA, GAMMA>>
    /\ TopLevelRequirers(ALPHA) = {BETA}
    /\ TopLevelRequirers(BETA) = {GAMMA}
    /\ TopLevelRequirers(GAMMA) = {}
    /\ unused = {ALPHA, BETA, GAMMA}
    /\ passes = 3

(* C2: at the end of a run every dependency in the unused set has an empty
   usedInFiles and only requirers that are in the unused set too; a
   dependency with direct usage, or with a requirer outside the unused set,
   is not in the unused set. *)
C2_UnusedHasNoUseAndNoLiveRequirer ==
    MainFinished =>
        \A d \in TopLevel :
            /\ d \in MainUnused =>
                  /\ dependencyUsage[d] = <<>>
                  /\ DependencyInfoOf(d).usedInFiles = <<>>
                  /\ DependencyInfoOf(d).requiredByPackages \subseteq MainUnused
            /\ \/ dependencyUsage[d] # <<>>
               \/ DependencyInfoOf(d).usedInFiles # <<>>
               \/ ~(DependencyInfoOf(d).requiredByPackages \subseteq MainUnused)
               => d \notin MainUnused

(* C3: for every queried dependency and every installed tree, cycles
   included, the reverse-reachability search terminates and returns its
   result set. *)
C3_SearchTerminates ==
    \A d \in DOMAIN infoOf :
        ~IsTypesPackage(d) =>
            ~findTopLevelDependents(d, {d}, nodeModules, TopLevel).overflow

(* C4: a declared dependency that some source file refers to through a static
   import, a require call, a dynamic import or an import type, by its own
   name or by a sub-path of it, is not in the unused set. *)
C4_ImportedNeverUnused ==
    MainFinished => \A d \in TopLevel : RefersTo(d) => d \notin MainUnused

(* C5: with a .ts or .tsx file in the corpus, a declared @types/node is not
   in the unused set. *)
C5_TypesNodeKeptWithTSFiles ==
    Finished =>
        (TYPES_NODE \in TopLevel /\ hasTSFiles(SourceFiles) => TYPES_NODE \notin unused)

(* C6: a declared @types/foo is not in the unused set when its runtime
   package foo is a declared dependency that some source file uses. *)
C6_TypesKeptWithUsedRuntime ==
    Finished =>
        \A t \in TopLevel :
            /\ IsTypesPackage(t)
            /\ normalizeTypesPackage(t) \in TopLevel
            /\ ~NoEvidence(normalizeTypesPackage(t))
            => t \notin unused

(* C7: every declared dependency that no file imports, no script or
   configuration mentions and no other top-level dependency transitively
   requires is in the unused set; with only lodash declared and referenced
   nowhere the unused set is {lodash}. *)
C7_UnreferencedIsUnused ==
    MainFinished =>
        /\ \A d \in TopLevel :
              NotImported(d) /\ NotMentioned(d) /\ TopLevelRequirers(d) \subseteq {d}
              => d \in MainUnused
        /\ (declared = <<LODASH>> /\ NotImported(LODASH) /\ NotMentioned(LODASH)
            => MainUnused = {LODASH})

(* C8: the closure loop ends after at most (number of declared dependencies
   + 1) whole passes, for every DependencyInfo assignment: while the loop is
   still running fewer than that many passes have been made. *)
C8_ClosureTerminates ==
    /\ passes <= Len(declared) + 1
    /\ (pc = "closure" => passes <= Len(declared))

\* a requirer cycle and an undeclared requirer, after a run of several passes
C8_Witness ==
    /\ Finished
    /\ \/ passes = 3
       \/ /\ passes >= 1
          /\ \E d \in TopLevel : ~(infoOf[d].requiredByPackages \subseteq TopLevel)
       \/ /\ passes >= 1
          /\ \E d, e \in TopLevel :
                /\ d # e
                /\ d \in infoOf[e].requiredByPackages
                /\ e \in infoOf[d].requiredByPackages

(* C9: a second run of the engine on the same inputs, answered from the
   DependencyInfo cache where it holds an entry, ends with the unused set and
   the evidence lists of the first run; a second scan of a file list returns
   the results and the error count of the first, in whatever order the files
   of a batch settle. *)
C9_SecondRunSame ==
    /\ (Finished /\ run = 2) => (unused = prev.unused /\ Evidence = prev.evidence)
    /\ (scanPc = "done" /\ scanRun = 2) =>
           (results = prevScan.results /\ totalErrors = prevScan.totalErrors)

\* a second run served from the cache, with evidence and requirers at stake
C9_Witness ==
    /\ Finished
    /\ run = 2
    /\ depInfoCache # EmptyMap
    /\ unused # {}
    /\ \E d \in TopLevel : infoOf[d].usedInFiles # <<>>
    /\ \E d \in TopLevel : infoOf[d].requiredByPackages # {}

(* C10: within one scan the processed values handed to the progress callback
   are strictly increasing and never above the number of files, and when the
   scan returns the last value handed over is the number of files. *)
C10_ProgressIncreasesToTotal ==
    /\ \A k \in 1..Len(progress) :
          /\ progress[k] <= Len(scanFiles)
          /\ k > 1 => progress[k - 1] < progress[k]
    /\ (scanPc = "done" /\ Len(scanFiles) > 0) =>
           (progress # <<>> /\ progress[Len(progress)] = Len(scanFiles))

\* a scan whose last batch is shorter than the batch size
C10_Witness ==
    /\ scanPc = "done"
    /\ Len(progress) = 2
    /\ progress[2] = Len(scanFiles)
    /\ Len(scanFiles) < 2 * BATCH_SIZE(heapSizeLimit)

(* C11: a file whose matching fails is left out of the results and adds one
   to the error count; every other file of its batch and of the later batches
   is matched and reported, and the scan returns: after each batch the
   results are the used files of the batches so far, in order, and the error
   count is the number of failed files among them; the scan ends with every
   file accounted for. *)
C11_FailureIsolatedPerFile ==
    /\ scanPc \in {"loop", "done"} =>
           /\ results = UsedUpTo(BatchesDone)
           /\ totalErrors = ErrorsUpTo(BatchesDone)
    /\ scanPc = "done" => BatchesDone = Len(scanFiles)

\* a scan that has returned, with a failed file in the first batch, a used
\* file after it in the same batch and a used file in a later batch
C11_Witness ==
    /\ scanPc = "done"
    /\ Len(progress) = 2
    /\ scanFiles[1] = "error"
    /\ \E i \in 2..progress[1] : scanFiles[i] = "used" /\ i \in SeqToSet(results)
    /\ \E i \in (progress[1] + 1)..Len(scanFiles) :
          scanFiles[i] = "used" /\ i \in SeqToSet(results)
    /\ totalErrors = ErrorsUpTo(Len(scanFiles))
    /\ totalErrors >= 2

(* C12: a read or parse failure of a corpus file, a configuration file or an
   installed-package manifest never aborts the run: the run aborts only when
   the project manifest itself cannot be read or parsed, and for an
   unreadable file the matcher raises nothing and finds no usage in it (its
   answer is that of the signals it takes from the context). *)
C12_OnlyManifestFailureAborts ==
    /\ MainAborted => ~manifest.valid
    /\ \A d \in TopLevel : \A i \in 1..Len(files) :
          ~files[i].readable =>
              isDependencyUsedInFile(d, files[i], Context) = ContextSignals(d, files[i])

(* C13: while the installed-package graph is built, a package whose manifest
   is missing, unreadable or malformed contributes no adjacency entry, and
   the requiredByPackages computed for every queried dependency is the one
   computed as if that package were not installed. *)
C13_FaultyManifestSkipped ==
    /\ \A package \in DOMAIN manifestFaults : package \notin GraphEntries(Installed)
    /\ \A d \in DOMAIN infoOf :
          ~IsTypesPackage(d) =>
              infoOf[d].requiredByPackages =
                  PackageDependencyInfo(d, Context, SourceFiles, TopLevel,
                                        WithoutFaulty).requiredByPackages

(* C14: within one run the DependencyInfo of a key is computed at most once
   for every declared dependency; a later query for the key is answered with
   the cached object, which is the one the first query returned. *)
C14_ComputedAtMostOnce ==
    /\ \A d \in TopLevel :
          CacheKey(d) \in DOMAIN computations => computations[CacheKey(d)] <= 1
    /\ \A d \in DOMAIN infoOf :
          CacheKey(d) \in DOMAIN depInfoCache => depInfoCache[CacheKey(d)] = infoOf[d]

(* C15: during the closure computation the unused set only grows: no step
   taken while the closure loop runs removes a dependency from it. *)
C15_UnusedSetOnlyGrows ==
    [][pc = "closure" => unused \subseteq unused']_vars

\* a run whose closure passes added to a non-empty initial unused set
C15_Witness ==
    /\ Finished
    /\ passes >= 2
    /\ InitialUnusedSet(declared, infoOf) # {}
    /\ InitialUnusedSet(declared, infoOf) # unused

(* C16: within one analysis run the usedInFiles list of a dependency is
   append-only: the list after any number of iterations of the file loop is
   a prefix of the list after any larger number, the list returned is the
   one after the last iteration, and no later step of the run removes or
   reorders an entry of it. *)
C16_UsedInFilesAppendOnly ==
    /\ [](\A d \in DOMAIN infoOf :
            LET sourceFiles == SourceFiles
                keep == UsedPositions(d)
            IN  /\ \A n \in 0..Len(sourceFiles) : \A later \in n..Len(sourceFiles) :
                      IsPrefix(UsedInFilesAfter(sourceFiles, keep, n),
                               UsedInFilesAfter(sourceFiles, keep, later))
                /\ infoOf[d].usedInFiles =
                      UsedInFilesAfter(sourceFiles, keep, Len(sourceFiles)))
    /\ [][\A d \in DOMAIN infoOf \cap DOMAIN infoOf' :
             IsPrefix(infoOf[d].usedInFiles, infoOf'[d].usedInFiles)]_vars

\* a dependency whose list received two files, one after the other
C16_Witness ==
    \E d \in DOMAIN infoOf :
        /\ Len(infoOf[d].usedInFiles) = 2
        /\ UsedInFilesAfter(SourceFiles, UsedPositions(d), 1) = <<infoOf[d].usedInFiles[1]>>

(* C17: at no moment are two computations of DependencyInfo for the same
   cache key in progress, each cache key is written at most once per run,
   and a cache entry is never changed after it has been written. *)
C17_NoConcurrentComputation ==
    /\ [](/\ \A i, j \in 1..Len(inProgress) :
                i # j => CacheKey(inProgress[i]) # CacheKey(inProgress[j])
          /\ \A k \in DOMAIN depInfoCache :
                k \in DOMAIN computations => computations[k] <= 1)
    /\ [][\A k \in DOMAIN depInfoCache :
             k \in DOMAIN depInfoCache' /\ depInfoCache'[k] = depInfoCache[k]]_vars

\* a name declared twice: its second query found the entry the first wrote,
\* and a computation for another key is in progress
C17_Witness ==
    /\ \E i, j \in 1..Len(declared) : i < j /\ j < depIndex /\ declared[i] = declared[j]
    /\ depInfoCache # EmptyMap
    /\ inProgress # <<>>

(* C18: for a queried dependency X, requiredByPackages is exactly the set of
   top-level declared dependencies from which X is reachable along
   requires-edges of the installed-package graph; stated for the trees
   whose manifests are all read and on which the search returns. *)
C18_RequiredByIsReverseReachability ==
    \A d \in DOMAIN infoOf :
        ( /\ ~IsTypesPackage(d)
          /\ manifestFaults = EmptyMap
          /\ ~findTopLevelDependents(d, {d}, nodeModules, TopLevel).overflow )
        => infoOf[d].requiredByPackages = TransitiveRequirers(d)

(* C19: when a project file named jest.config.js holds the word jest and no
   file imports jest, a declared jest is not in the unused set at the end of
   the run. *)
C19_JestConfigKeepsJest ==
    ( /\ MainFinished
      /\ JEST \in TopLevel
      /\ NotImported(JEST)
      /\ \E i \in 1..Len(files) :
            /\ files[i].base = JestConfigFile(<<>>).base
            /\ WholeWordTest(files[i], JEST) )
    => JEST \notin MainUnused

(* C20: the list of dependencies offered for removal never holds the
   dependency named with --safe, with or without --aggressive, and holds a
   built-in protected dependency only when --aggressive is given. *)
C20_SafeAndProtectedNotOffered ==
    MainFinished =>
        /\ options.safe # Undefined =>
               options.safe \notin SeqToSet(unusedDependencies)
        /\ ~options.aggressive =>
               SeqToSet(unusedDependencies) \cap PROTECTED_PACKAGES = {}

(* C21: the uninstall command is executed only after the user has answered
   'y' to the removal prompt and never in a run started with --dry-run; in
   every other run nothing is executed. *)
C21_UninstallOnlyAfterYes ==
    /\ [](executed # <<>> => (ToLowerCase(answer) = "y" /\ ~options.dryRun))
    /\ [][executed' # executed =>
            (pc = "prompt" /\ ToLowerCase(answer') = "y" /\ Len(executed') = 1)]_vars

\* an uninstall that ran after the answer Y
C21_Witness ==
    /\ answer = "Y"
    /\ Len(executed) = 1
    /\ executed[1][1] = YARN

(* C22: batches are processed strictly in sequence: the files being matched
   are files of the current batch, at most the batch size of them, every
   file of an earlier batch has settled, and files start being matched only
   when no file is being matched. *)
C22_BatchesInSequence ==
    /\ [](/\ Cardinality(inFlight) <= BATCH_SIZE(heapSizeLimit)
          /\ inFlight # {} => (scanPc = "await" /\ inFlight \subseteq BatchPositions)
          /\ \A i \in inFlight : i > index)
    /\ [][inFlight' \ inFlight # {} => inFlight = {}]_vars

\* the second batch of a scan, with some of its files settled and some not
C22_Witness ==
    /\ scanPc = "await"
    /\ index = BATCH_SIZE(heapSizeLimit)
    /\ inFlight # {}
    /\ inFlight # BatchPositions
    /\ Len(scanFiles) > index + 1

(* C23: isUsed takes its steps in the order manifest deep scan, matched
   configuration content, script exact token, binary exclusion, dynamic
   import text, syntax-tree traversal, pattern-family fallback, and answers
   true at the first positive signal; for a binary file the answer is that
   of the first three signals. *)
C23_FixedSignalOrder ==
    \A key \in DOMAIN evaluation :
        LET dependency == key[1]
            file       == files[key[2]]
            did        == evaluation[key]
            claimed    == <<"manifest", "config", "script", "binary", "dynamic",
                           "ast", "fallback">>
            firstThree == \/ ManifestSignal(dependency, file, Context)
                          \/ ConfigSignal(dependency, file, Context)
                          \/ ScriptSignal(dependency, Context)
        IN  /\ IsPrefix(did.steps, claimed)
            /\ \A k \in 1..(Len(did.steps) - 1) :
                  ~StepReturns(did.steps[k], dependency, file, Context)
            /\ did.answer =>
                  /\ did.steps[Len(did.steps)] # "binary"
                  /\ StepReturns(did.steps[Len(did.steps)], dependency, file, Context)
            /\ ~did.answer /\ ~file.binary /\ file.readable => did.steps = claimed
            /\ file.binary => did.answer = firstThree
            /\ did.answer = isDependencyUsedInFile(dependency, file, Context)

\* a binary file holding an import of the dependency, answered both ways:
\* not used, and used through the script signal
C23_Witness ==
    /\ \E key \in DOMAIN evaluation :
          /\ files[key[2]].binary
          /\ RefersTo(key[1])
          /\ ~evaluation[key].answer
    /\ \E key \in DOMAIN evaluation :
          /\ files[key[2]].binary
          /\ evaluation[key].answer

(* C28: for every configuration file stored in the context, at any depth,
   the matcher called with that file's path looks up the entry stored for
   that file. *)
C28_ConfigLookedUpByItsOwnPath ==
    \A key \in DOMAIN evaluation :
        Path(files[key[2]]) \in DOMAIN Context.configs =>
            evaluation[key].configKey = Path(files[key[2]])

(* C24: for every heap measurement the batch size is the available heap
   headroom divided by 50 MB, rounded down and clamped into [10, 100]; it is
   never below 10 and never above 100. *)
C24_BatchSizeFromHeadroom ==
    batchSize # 0 =>
        /\ batchSize = Min2(100, Max2(10, (heapSizeLimit - usedHeapSize) \div 51200))
        /\ batchSize >= 10
        /\ batchSize <= 100

(* C25: a declared @types/* dependency that the manifest of some installed
   package lists as a peer dependency is not in the unused set, whether or
   not its runtime package is declared or used. *)
C25_PeerListedTypesKept ==
    MainFinished =>
        \A d \in TopLevel :
            ( /\ IsTypesPackage(d)
              /\ \E package \in DOMAIN peerDependencies : d \in peerDependencies[package] )
            => d \notin MainUnused

(* C26: every package name in an executed uninstall command passes the
   package-name validation and is one of the names that passed it; a name
   that fails the validation is in no executed command. *)
C26_ExecutedNamesAreValid ==
    \A k \in 1..Len(executed) :
        \A j \in 3..Len(executed[k]) :
            /\ isValidPackageName(executed[k][j])
            /\ executed[k][j] \in SeqToSet(unusedDependencies)

(* C27: safeExecSync executes the command exactly when it is a non-empty
   array whose first element is npm, yarn or pnpm and whose other elements
   are non-empty strings; in every other case it throws and nothing is
   executed. *)
C27_SafeExecSyncExecutesExactlyValid ==
    \A key \in DOMAIN calls :
        LET command == key[2]
            valid   == /\ command # <<>>
                       /\ command[1] \in {<<"npm">>, <<"yarn">>, <<"pnpm">>}
                       /\ \A i \in 2..Len(command) : command[i] # <<>>
        IN  /\ calls[key].reachedExecSync = valid
            /\ ~valid => calls[key].threw

(* C29: the list a scan returns is a subsequence of the input list, in input
   order and without repetition; every input file is matched exactly once
   (a file starts being matched only while it lies beyond the batches done,
   and a scan that has returned has gone through the whole list and reports
   exactly the files found used); returned files plus counted errors never
   exceed the number of input files. *)
C29_ResultsAreSubsequence ==
    /\ [](/\ \A k \in 1..Len(results) : results[k] \in 1..Len(scanFiles)
          /\ \A k \in 1..(Len(results) - 1) : results[k] < results[k + 1]
          /\ Len(results) + totalErrors <= Len(scanFiles)
          /\ scanPc = "done" =>
                /\ inFlight = {}
                /\ index >= Len(scanFiles)
                /\ results = UsedUpTo(Len(scanFiles)))
    /\ [][/\ inFlight' \ inFlight \subseteq (index + 1)..Len(scanFiles)
          /\ inFlight \ inFlight' \subseteq (index + 1)..Len(scanFiles)
          /\ scanRun' = scanRun => index' >= index]_vars

\* a returned scan of two batches with used, unused and failed files
C29_Witness ==
    /\ scanPc = "done"
    /\ index > Len(scanFiles)
    /\ Len(results) >= 2
    /\ totalErrors >= 2
    /\ Len(results) + totalErrors < Len(scanFiles)
    /\ results[Len(results)] > BATCH_SIZE(heapSizeLimit)

(* C30: the final unused set is determined by the usedInFiles and
   requiredByPackages of the dependencies alone: whatever the order of the
   declared list and the order of visiting in each closure pass, the run
   ends with the least set closed under the closure step, which is also
   what the passes over any one fixed order of the list end with. *)
C30_OrderIndependentUnusedSet ==
    Finished =>
        /\ unused = ClosureOf(infoOf, InitialUnusedSet(declared, infoOf))
        /\ \A order \in Orders(declared) :
              unused = PassesToEnd(order, infoOf, InitialUnusedSet(order, infoOf))
        /\ \A d \in TopLevel : infoOf[d] = DependencyInfoOf(d)

\* gamma requires beta, beta requires alpha, declared as gamma, beta, alpha:
\* a pass in the order of the list promotes beta and alpha together, a pass
\* in the order alpha, beta, gamma promotes beta only; the run took three
\* passes, so it visited in another order than the list's, and ended with
\* all three unused
C30_Witness ==
    /\ Finished
    /\ declared = <<GAMMA, BETA, ALPHA>>
    /\ unused = {ALPHA, BETA, GAMMA}
    /\ InitialUnusedSet(declared, infoOf) = {GAMMA}
    /\ ClosurePassResult(declared, infoOf, {GAMMA}) = {GAMMA, BETA, ALPHA}
    /\ ClosurePassResult(<<ALPHA, BETA, GAMMA>>, infoOf, {GAMMA}) = {GAMMA, BETA}
    /\ passes = 3

====
